---- MODULE Spec2Model ----
(***************************************************************************)
(* A model of the mcp-hydrolix gateway: the cursor codec of                *)
(* src/mcp_hydrolix/pagination.py and the tool surface of                  *)
(* src/mcp_hydrolix/mcp_server.py (list_tables, run_select_query,          *)
(* execute_query, execute_cmd), together with the agent-side wrappers of   *)
(* src/_assistant/backend/src/hdx_agent/tools.                             *)
(*                                                                         *)
(* Text is a sequence of byte values (the UTF-8 encoding of a Python str). *)
(* A Python value is a tagged record [k |-> kind, v |-> payload]:          *)
(*   none, bool, int, float (payload: its literal text), str (payload:     *)
(*   bytes), list (payload: sequence), dict (payload: function from key    *)
(*   bytes to values).                                                     *)
(***************************************************************************)
EXTENDS Integers, Sequences, FiniteSets, TLC

VARIABLES
    cphase,                 \* codec harness: "start", "encoded", "decoded", "validated"
    cin,                    \* codec harness: the input it started from
    cout,                   \* codec harness: the result of the last codec operation
    list_tables_page_size,  \* HYDROLIX_CONFIG.list_tables_page_size
    query_result_page_size, \* HYDROLIX_CONFIG.query_result_page_size
    enable_pagination,      \* HYDROLIX_CONFIG.enable_pagination
    ntables,                \* the engine: how many tables database "a" holds
    last,                   \* the last tool call: arguments, outcome, statements sent
    query_timeout_sec,      \* HYDROLIX_CONFIG.query_timeout_sec
    tphase,                 \* one execute_query call in time: "idle", "waiting", "done"
    elapsed,                \* seconds since that call sent its statement
    tresult,                \* what that call returned or raised
    engine,                 \* the engine: "up", "down" (no connection), "nodescribe"
    environ,                \* os.environ at start-up: HYDROLIX_TOKEN, HYDROLIX_USER/PASSWORD
    conn,                   \* the HTTP request: its token query parameter and Authorization header
    now,                    \* int(time.time())
    backends,               \* ChainedAuthBackend.backends
    token_verifier,         \* the verifier of the backends: "hydrolix" or "generic"
    aphase,                 \* a request: "start", "authenticated", "resolved"
    authed,                 \* what ChainedAuthBackend.authenticate returned, and whom it invoked
    resolved,               \* the credential create_hydrolix_client resolved, or its error
    mphase,                 \* column metadata: "start", "enriched", "classified"
    min,                    \* column metadata: the column or columns it started from
    mout,                   \* column metadata: the result of the last operation
    client_shared_pool,     \* the pool manager: its maxsize, the connections it keeps
    reqs,                   \* concurrent requests: credential, position, client held
    handles,                \* every client created: its request, credential, open or closed
    wire,                   \* the statements sent to the engine, as they were sent
    walks                   \* concurrent paginations: tool, arguments, cursor held, pages

codecVars == <<cphase, cin, cout>>
configVars == <<list_tables_page_size, query_result_page_size, enable_pagination>>
toolVars == <<ntables, last>>
timeVars == <<query_timeout_sec, tphase, elapsed, tresult>>
authVars == <<environ, conn, now, backends, token_verifier, aphase, authed, resolved>>
metaVars == <<mphase, min, mout>>
sessionVars == <<client_shared_pool, reqs, handles, wire, walks>>
restVars == <<engine, authVars, metaVars, sessionVars>>
vars == <<codecVars, configVars, toolVars, timeVars, restVars>>

(***************************************************************************)
(* Python values                                                           *)
(***************************************************************************)
PyNone == [k |-> "none", v |-> 0]
PyInt(n) == [k |-> "int", v |-> n]
PyStr(s) == [k |-> "str", v |-> s]
PyBool(b) == [k |-> "bool", v |-> b]
PyFloat(text) == [k |-> "float", v |-> text]
PyList(s) == [k |-> "list", v |-> s]
PyDict(f) == [k |-> "dict", v |-> f]
EmptyMap == [x \in {} |-> PyNone]

\* dict.get(key, default) on a value that is a dict
DictGet(d, key, default) == IF key \in DOMAIN d.v THEN d.v[key] ELSE default

(***************************************************************************)
(* Text helpers                                                            *)
(***************************************************************************)
\* lexicographic order on byte sequences (Python's order on str keys)
RECURSIVE SeqLess(_, _)
SeqLess(a, b) ==
    IF Len(a) = 0 THEN Len(b) > 0
    ELSE IF Len(b) = 0 THEN FALSE
    ELSE IF a[1] # b[1] THEN a[1] < b[1]
    ELSE SeqLess(Tail(a), Tail(b))

\* sorted(keys): the keys of a dict in ascending order
RECURSIVE SortedKeys(_)
SortedKeys(S) ==
    IF S = {} THEN <<>>
    ELSE LET m == CHOOSE x \in S : \A y \in S \ {x} : SeqLess(x, y)
         IN <<m>> \o SortedKeys(S \ {m})

\* str(n) for an integer
RECURSIVE NatText(_)
NatText(n) == IF n < 10 THEN <<48 + n>> ELSE NatText(n \div 10) \o <<48 + (n % 10)>>

IntText(n) == IF n < 0 THEN <<45>> \o NatText(0 - n) ELSE NatText(n)

IsWs(ch) == ch \in {32, 9, 10, 13}
IsDigit(ch) == ch >= 48 /\ ch <= 57

\* the character at position i, or -1 past the end
At(s, i) == IF i >= 1 /\ i <= Len(s) THEN s[i] ELSE 0 - 1

\* s[i:j] in 1-based inclusive positions
Slice(s, i, j) == IF j < i THEN <<>> ELSE SubSeq(s, i, j)

\* s.startswith(p) at position i
StartsAt(s, i, p) == i + Len(p) - 1 <= Len(s) /\ SubSeq(s, i, i + Len(p) - 1) = p

\* str.strip(): Python strips the whitespace characters space, \t, \n, \r, \v, \f
\* (and the ASCII separators 28..31)
IsPyWs(ch) == ch \in {32, 9, 10, 11, 12, 13, 28, 29, 30, 31}

RECURSIVE LStrip(_)
LStrip(s) == IF Len(s) > 0 /\ IsPyWs(s[1]) THEN LStrip(Tail(s)) ELSE s

RECURSIVE RStrip(_)
RStrip(s) == IF Len(s) > 0 /\ IsPyWs(s[Len(s)]) THEN RStrip(SubSeq(s, 1, Len(s) - 1)) ELSE s

Strip(s) == RStrip(LStrip(s))

(***************************************************************************)
(* base64.urlsafe_b64encode / urlsafe_b64decode                            *)
(***************************************************************************)
\* the URL-safe alphabet: A-Z a-z 0-9 - _
B64Char(i) ==
    IF i < 26 THEN 65 + i
    ELSE IF i < 52 THEN 71 + i
    ELSE IF i < 62 THEN i - 4
    ELSE IF i = 62 THEN 45 ELSE 95

urlsafe_b64encode(bs) ==
    LET n == Len(bs)
        byte(i) == IF i <= n THEN bs[i] ELSE 0
        quad(g) ==
            LET b1 == byte(3 * g - 2)
                b2 == byte(3 * g - 1)
                b3 == byte(3 * g)
            IN << B64Char(b1 \div 4),
                  B64Char((b1 % 4) * 16 + (b2 \div 16)),
                  IF 3 * g - 1 > n THEN 61 ELSE B64Char((b2 % 16) * 4 + (b3 \div 64)),
                  IF 3 * g > n THEN 61 ELSE B64Char(b3 % 64) >>
    IN [i \in 1..(4 * ((n + 2) \div 3)) |-> quad((i + 3) \div 4)[((i - 1) % 4) + 1]]

\* The decoding table after urlsafe_b64decode's translation of - and _ to + and /:
\* both spellings of 62 and 63 are accepted; 64 stands for "not in the alphabet".
B64Value(ch) ==
    IF ch >= 65 /\ ch <= 90 THEN ch - 65
    ELSE IF ch >= 97 /\ ch <= 122 THEN ch - 71
    ELSE IF ch >= 48 /\ ch <= 57 THEN ch + 4
    ELSE IF ch = 43 \/ ch = 45 THEN 62
    ELSE IF ch = 47 \/ ch = 95 THEN 63
    ELSE 64

IsB64Data(ch) == B64Value(ch) < 64

\* One character of binascii.a2b_base64's scan in its default (non-strict) mode.
\* The scan state is [q, pads, done, cnt]: the position in the current quad, the
\* pad characters seen since the last data character, whether a complete pad
\* sequence ended the parse, and the number of data characters taken.
\* A character outside the alphabet is skipped.
B64Step(st, ch) ==
    IF st.done THEN st
    ELSE IF ch = 61
    THEN IF st.q >= 2 /\ st.q + st.pads + 1 >= 4
         THEN [st EXCEPT !.done = TRUE]
         ELSE [st EXCEPT !.pads = IF st.q >= 2 THEN st.pads + 1 ELSE st.pads]
    ELSE IF ~IsB64Data(ch) THEN st
    ELSE [q |-> (st.q + 1) % 4, pads |-> 0, done |-> FALSE, cnt |-> st.cnt + 1]

\* the scan of s[lo..hi] from state st (split in halves: the order is kept)
RECURSIVE B64Scan(_, _, _, _)
B64Scan(s, lo, hi, st) ==
    IF lo > hi THEN st
    ELSE IF lo = hi THEN B64Step(st, s[lo])
    ELSE LET mid == (lo + hi) \div 2
             left == B64Scan(s, lo, mid, st)
         IN IF left.done THEN left ELSE B64Scan(s, mid + 1, hi, left)

\* binascii.a2b_base64: the bytes of the data characters taken; an incomplete
\* last quad with no pad sequence ending it is an error (binascii.Error).
a2b_base64(s) ==
    LET st == B64Scan(s, 1, Len(s), [q |-> 0, pads |-> 0, done |-> FALSE, cnt |-> 0])
        data == SelectSeq(s, IsB64Data)
        val(i) == B64Value(data[i])
        rem == st.cnt % 4
        nbytes == 3 * (st.cnt \div 4) + (IF rem = 0 THEN 0 ELSE rem - 1)
        byte(i) ==
            LET g == 4 * ((i - 1) \div 3)
                r == (i - 1) % 3
            IN CASE r = 0 -> val(g + 1) * 4 + (val(g + 2) \div 16)
                 [] r = 1 -> (val(g + 2) % 16) * 16 + (val(g + 3) \div 4)
                 [] OTHER -> (val(g + 3) % 4) * 64 + val(g + 4)
    IN IF ~st.done /\ rem # 0 THEN [ok |-> FALSE, v |-> <<>>]
       ELSE [ok |-> TRUE, v |-> [i \in 1..nbytes |-> byte(i)]]

urlsafe_b64decode(s) == a2b_base64(s)

(***************************************************************************)
(* bytes.decode(): strict UTF-8                                            *)
(***************************************************************************)
\* One byte of the decoder. The state is [ok, need, lo, hi]: no error so far, the
\* continuation bytes still owed, and the range the next one must lie in.
Utf8Step(st, b) ==
    LET lead(n, lo, hi) == [ok |-> TRUE, need |-> n, lo |-> lo, hi |-> hi]
        bad == [ok |-> FALSE, need |-> 0, lo |-> 128, hi |-> 191]
    IN IF ~st.ok THEN st
       ELSE IF st.need > 0
       THEN IF b >= st.lo /\ b <= st.hi THEN lead(st.need - 1, 128, 191) ELSE bad
       ELSE IF b < 128 THEN st
       ELSE IF b >= 194 /\ b <= 223 THEN lead(1, 128, 191)
       ELSE IF b = 224 THEN lead(2, 160, 191)
       ELSE IF b = 237 THEN lead(2, 128, 159)
       ELSE IF b >= 225 /\ b <= 239 THEN lead(2, 128, 191)
       ELSE IF b = 240 THEN lead(3, 144, 191)
       ELSE IF b = 244 THEN lead(3, 128, 143)
       ELSE IF b >= 241 /\ b <= 243 THEN lead(3, 128, 191)
       ELSE bad

RECURSIVE Utf8Scan(_, _, _, _)
Utf8Scan(bs, lo, hi, st) ==
    IF lo > hi THEN st
    ELSE IF lo = hi THEN Utf8Step(st, bs[lo])
    ELSE LET mid == (lo + hi) \div 2
             left == Utf8Scan(bs, lo, mid, st)
         IN IF ~left.ok THEN left ELSE Utf8Scan(bs, mid + 1, hi, left)

Utf8Valid(bs) ==
    \/ \A i \in 1..Len(bs) : bs[i] < 128
    \/ LET st == Utf8Scan(bs, 1, Len(bs), [ok |-> TRUE, need |-> 0, lo |-> 128, hi |-> 191])
       IN st.ok /\ st.need = 0

(***************************************************************************)
(* json.dumps(value, sort_keys=True)                                       *)
(***************************************************************************)
\* one lowercase hexadecimal digit
HexDigit(n) == IF n < 10 THEN 48 + n ELSE 87 + n

\* '\\u{0:04x}'.format(n)
UEscape(n) ==
    <<92, 117, HexDigit(n \div 4096), HexDigit((n \div 256) % 16),
      HexDigit((n \div 16) % 16), HexDigit(n % 16)>>

\* the code point whose UTF-8 encoding starts at s[i], and its length in bytes
CodePointAt(s, i) ==
    LET b == s[i]
        c(n) == At(s, i + n) % 64
    IN IF b < 192 THEN [cp |-> b, n |-> 1]
       ELSE IF b < 224 THEN [cp |-> (b % 32) * 64 + c(1), n |-> 2]
       ELSE IF b < 240 THEN [cp |-> (b % 16) * 4096 + c(1) * 64 + c(2), n |-> 3]
       ELSE [cp |-> (b % 8) * 262144 + c(1) * 4096 + c(2) * 64 + c(3), n |-> 4]

\* ESCAPE_DCT and the replace function of py_encode_basestring_ascii
EscapeCodePoint(cp) ==
    CASE cp = 34 -> <<92, 34>>
      [] cp = 92 -> <<92, 92>>
      [] cp = 10 -> <<92, 110>>
      [] cp = 13 -> <<92, 114>>
      [] cp = 9 -> <<92, 116>>
      [] cp = 12 -> <<92, 102>>
      [] cp = 8 -> <<92, 98>>
      [] cp >= 32 /\ cp <= 126 -> <<cp>>
      [] cp < 65536 -> UEscape(cp)
      [] OTHER -> UEscape(55296 + ((cp - 65536) \div 1024))
                  \o UEscape(56320 + ((cp - 65536) % 1024))

RECURSIVE JsonEscapeFrom(_, _)
JsonEscapeFrom(s, i) ==
    IF i > Len(s) THEN <<>>
    ELSE LET c == CodePointAt(s, i)
         IN EscapeCodePoint(c.cp) \o JsonEscapeFrom(s, i + c.n)

\* the body of a JSON string literal (ensure_ascii=True): everything outside
\* space..~ and the quote and the backslash are escaped
JsonEscape(s) ==
    IF \A i \in 1..Len(s) : s[i] >= 32 /\ s[i] <= 126 /\ s[i] # 34 /\ s[i] # 92
    THEN s
    ELSE JsonEscapeFrom(s, 1)

JsonQuote(s) == <<34>> \o JsonEscape(s) \o <<34>>

RECURSIVE json_dumps(_)
RECURSIVE DumpItems(_, _)
RECURSIVE DumpElems(_, _)
json_dumps(x) ==
    CASE x.k = "none" -> <<110, 117, 108, 108>>
      [] x.k = "bool" -> IF x.v THEN <<116, 114, 117, 101>> ELSE <<102, 97, 108, 115, 101>>
      [] x.k = "int" -> IntText(x.v)
      [] x.k = "float" -> x.v
      [] x.k = "str" -> JsonQuote(x.v)
      [] x.k = "list" -> <<91>> \o DumpElems(x.v, 1) \o <<93>>
      [] OTHER -> <<123>> \o DumpItems(x.v, SortedKeys(DOMAIN x.v)) \o <<125>>

\* "key": value pairs joined by ", "
DumpItems(f, keys) ==
    IF Len(keys) = 0 THEN <<>>
    ELSE JsonQuote(keys[1]) \o <<58, 32>> \o json_dumps(f[keys[1]])
         \o (IF Len(keys) > 1 THEN <<44, 32>> ELSE <<>>)
         \o DumpItems(f, Tail(keys))

DumpElems(s, i) ==
    IF i > Len(s) THEN <<>>
    ELSE json_dumps(s[i]) \o (IF i < Len(s) THEN <<44, 32>> ELSE <<>>) \o DumpElems(s, i + 1)

(***************************************************************************)
(* json.loads(text)                                                        *)
(* A parse result is [ok, v, i]: success, the value, the next position.    *)
(***************************************************************************)
ParseFail == [ok |-> FALSE, v |-> PyNone, i |-> 0]
ParseOk(val, next) == [ok |-> TRUE, v |-> val, i |-> next]


RECURSIVE SkipWs(_, _)
SkipWs(s, i) == IF i <= Len(s) /\ IsWs(s[i]) THEN SkipWs(s, i + 1) ELSE i

RECURSIVE DigitsEnd(_, _)
\* the position after the run of digits that starts at i
DigitsEnd(s, i) == IF i <= Len(s) /\ IsDigit(s[i]) THEN DigitsEnd(s, i + 1) ELSE i

RECURSIVE DigitsValue(_, _, _, _)
DigitsValue(s, i, j, acc) ==
    IF i >= j THEN acc ELSE DigitsValue(s, i + 1, j, acc * 10 + (s[i] - 48))

HexValue(ch) ==
    IF IsDigit(ch) THEN ch - 48
    ELSE IF ch >= 97 /\ ch <= 102 THEN ch - 87
    ELSE IF ch >= 65 /\ ch <= 70 THEN ch - 55
    ELSE 0 - 1

\* the UTF-8 encoding of a code point (a lone surrogate is kept, in three bytes)
Utf8Of(cp) ==
    IF cp < 128 THEN <<cp>>
    ELSE IF cp < 2048 THEN <<192 + (cp \div 64), 128 + (cp % 64)>>
    ELSE IF cp < 65536
         THEN <<224 + (cp \div 4096), 128 + ((cp \div 64) % 64), 128 + (cp % 64)>>
    ELSE <<240 + (cp \div 262144), 128 + ((cp \div 4096) % 64),
           128 + ((cp \div 64) % 64), 128 + (cp % 64)>>

\* the four hexadecimal digits at s[i..i+3] as a number, or -1
Hex4Of(a, b, c, d) ==
    IF a < 0 \/ b < 0 \/ c < 0 \/ d < 0 THEN 0 - 1
    ELSE a * 4096 + b * 256 + c * 16 + d

Hex4(s, i) ==
    Hex4Of(HexValue(At(s, i)), HexValue(At(s, i + 1)),
           HexValue(At(s, i + 2)), HexValue(At(s, i + 3)))

\* \uXXXX at i (the u), cp its value and lo that of a \uXXXX following it, or
\* -1: a high and a low surrogate make one code point
UnicodeEscape(i, cp, lo) ==
    IF cp < 0 THEN [ok |-> FALSE, v |-> <<>>, i |-> 0]
    ELSE IF cp >= 55296 /\ cp <= 56319 /\ lo >= 56320 /\ lo <= 57343
         THEN [ok |-> TRUE, i |-> i + 11,
               v |-> Utf8Of(65536 + (cp - 55296) * 1024 + (lo - 56320))]
    ELSE [ok |-> TRUE, v |-> Utf8Of(cp), i |-> i + 5]

\* the escape sequence whose backslash is at i - 1: [ok, v (bytes), i]
EscapeOf(s, i, ch) ==
    CASE ch \in {34, 92, 47} -> [ok |-> TRUE, v |-> <<ch>>, i |-> i + 1]
      [] ch = 98 -> [ok |-> TRUE, v |-> <<8>>, i |-> i + 1]
      [] ch = 102 -> [ok |-> TRUE, v |-> <<12>>, i |-> i + 1]
      [] ch = 110 -> [ok |-> TRUE, v |-> <<10>>, i |-> i + 1]
      [] ch = 114 -> [ok |-> TRUE, v |-> <<13>>, i |-> i + 1]
      [] ch = 116 -> [ok |-> TRUE, v |-> <<9>>, i |-> i + 1]
      [] ch = 117 ->
           UnicodeEscape(i, Hex4(s, i + 1),
                         IF At(s, i + 5) = 92 /\ At(s, i + 6) = 117
                         THEN Hex4(s, i + 7) ELSE 0 - 1)
      [] OTHER -> [ok |-> FALSE, v |-> <<>>, i |-> 0]

ScanEscape(s, i) == EscapeOf(s, i, At(s, i))

\* the first position in lo..hi holding a quote, a backslash or a control
\* character, or 0 when there is none
RECURSIVE FirstSpecial(_, _, _)
RECURSIVE FirstSpecialRight(_, _, _, _)
FirstSpecial(s, lo, hi) ==
    IF lo > hi THEN 0
    ELSE IF lo = hi THEN (IF s[lo] = 34 \/ s[lo] = 92 \/ s[lo] < 32 THEN lo ELSE 0)
    ELSE FirstSpecialRight(s, (lo + hi) \div 2, hi, FirstSpecial(s, lo, (lo + hi) \div 2))

FirstSpecialRight(s, mid, hi, left) ==
    IF left # 0 THEN left ELSE FirstSpecial(s, mid + 1, hi)

\* the end of the run of ordinary characters that starts at i
RunEnd(s, i) ==
    IF At(s, i) = 34 \/ At(s, i) = 92 THEN i
    ELSE FirstSpecial(s, i, Len(s))

\* py_scanstring (strict): i is the position after the opening quote; a control
\* character or the end of the text inside the literal is an error
RECURSIVE ScanString(_, _, _)
RECURSIVE ScanStringRun(_, _, _, _)
RECURSIVE ScanStringEscape(_, _, _)
ScanString(s, i, acc) == ScanStringRun(s, i, acc, RunEnd(s, i))

\* j is the end of the run of ordinary characters from i
ScanStringRun(s, i, acc, j) ==
    IF j = 0 THEN ParseFail
    ELSE IF s[j] = 34 THEN ParseOk(PyStr(acc \o Slice(s, i, j - 1)), j + 1)
    ELSE IF s[j] = 92
         THEN ScanStringEscape(s, acc \o Slice(s, i, j - 1), ScanEscape(s, j + 1))
    ELSE ParseFail

ScanStringEscape(s, run, e) ==
    IF e.ok THEN ScanString(s, e.i, run \o e.v) ELSE ParseFail

\* NUMBER_RE: (-?(?:0|[1-9]\d*))(\.\d+)?([eE][-+]?\d+)?
\* the end of the fraction that may follow the integer part
FracEnd(s, intEnd) ==
    IF At(s, intEnd) = 46 /\ IsDigit(At(s, intEnd + 1))
    THEN DigitsEnd(s, intEnd + 1) ELSE intEnd

\* the end of the exponent that may follow the fraction; e0 is where its digits start
ExpEndFrom(s, fracEnd, e0) ==
    IF At(s, fracEnd) \in {69, 101} /\ IsDigit(At(s, e0))
    THEN DigitsEnd(s, e0) ELSE fracEnd

ExpEnd(s, fracEnd) ==
    ExpEndFrom(s, fracEnd, IF At(s, fracEnd + 1) \in {43, 45} THEN fracEnd + 2 ELSE fracEnd + 1)

\* the number at i: its digits start at d0, its integer part ends before
\* intEnd and the whole of it before expEnd
NumberOf(s, i, d0, intEnd, expEnd) ==
    IF intEnd = d0 THEN ParseFail
    ELSE IF expEnd > intEnd THEN ParseOk(PyFloat(SubSeq(s, i, expEnd - 1)), expEnd)
    ELSE ParseOk(PyInt(IF d0 > i THEN 0 - DigitsValue(s, d0, intEnd, 0)
                       ELSE DigitsValue(s, d0, intEnd, 0)), intEnd)

ScanNumberInt(s, i, d0, intEnd) ==
    NumberOf(s, i, d0, intEnd, ExpEnd(s, FracEnd(s, intEnd)))

ScanNumberFrom(s, i, d0) ==
    ScanNumberInt(s, i, d0, IF At(s, d0) = 48 THEN d0 + 1 ELSE DigitsEnd(s, d0))

ScanNumber(s, i) == ScanNumberFrom(s, i, IF At(s, i) = 45 THEN i + 1 ELSE i)

RECURSIVE ParseValueAt(_, _, _)
RECURSIVE ObjMembers(_, _, _)
RECURSIVE ObjKey(_, _, _)
RECURSIVE ObjColon(_, _, _, _)
RECURSIVE ObjValue(_, _, _, _)
RECURSIVE ObjNext(_, _, _)
RECURSIVE ArrElems(_, _, _)
RECURSIVE ArrValue(_, _, _)
RECURSIVE ArrNext(_, _, _)
\* JSONObject and JSONArray after the opening bracket and the whitespace
ObjOpen(s, j) ==
    IF At(s, j) = 125 THEN ParseOk(PyDict(EmptyMap), j + 1) ELSE ObjMembers(s, j, EmptyMap)

ArrOpen(s, j) ==
    IF At(s, j) = 93 THEN ParseOk(PyList(<<>>), j + 1) ELSE ArrElems(s, j, <<>>)

\* scan_once at i, where the character is ch
ParseValueAt(s, i, ch) ==
    CASE ch = 34 -> ScanString(s, i + 1, <<>>)
      [] ch = 123 -> ObjOpen(s, SkipWs(s, i + 1))
      [] ch = 91 -> ArrOpen(s, SkipWs(s, i + 1))
      [] ch = 110 /\ StartsAt(s, i, <<110, 117, 108, 108>>) -> ParseOk(PyNone, i + 4)
      [] ch = 116 /\ StartsAt(s, i, <<116, 114, 117, 101>>) -> ParseOk(PyBool(TRUE), i + 4)
      [] ch = 102 /\ StartsAt(s, i, <<102, 97, 108, 115, 101>>) -> ParseOk(PyBool(FALSE), i + 5)
      [] IsDigit(ch) \/ (ch = 45 /\ IsDigit(At(s, i + 1))) -> ScanNumber(s, i)
      [] ch = 78 /\ StartsAt(s, i, <<78, 97, 78>>) ->
           ParseOk(PyFloat(<<78, 97, 78>>), i + 3)
      [] ch = 73 /\ StartsAt(s, i, <<73, 110, 102, 105, 110, 105, 116, 121>>) ->
           ParseOk(PyFloat(<<73, 110, 102, 105, 110, 105, 116, 121>>), i + 8)
      [] ch = 45 /\ StartsAt(s, i, <<45, 73, 110, 102, 105, 110, 105, 116, 121>>) ->
           ParseOk(PyFloat(<<45, 73, 110, 102, 105, 110, 105, 116, 121>>), i + 9)
      [] OTHER -> ParseFail

ParseValue(s, i) == ParseValueAt(s, i, At(s, i))

\* JSONObject: j is where the quote of the next key is expected; then the
\* key, the colon after it (at c), the value, and what follows it (at d)
ObjMembers(s, j, acc) ==
    IF At(s, j) # 34 THEN ParseFail ELSE ObjKey(s, acc, ScanString(s, j + 1, <<>>))

ObjKey(s, acc, key) ==
    IF ~key.ok THEN ParseFail ELSE ObjColon(s, acc, key.v.v, SkipWs(s, key.i))

ObjColon(s, acc, key, c) ==
    IF At(s, c) # 58 THEN ParseFail
    ELSE ObjValue(s, acc, key, ParseValueAt(s, SkipWs(s, c + 1), At(s, SkipWs(s, c + 1))))

ObjValue(s, acc, key, val) ==
    IF ~val.ok THEN ParseFail ELSE ObjNext(s, (key :> val.v) @@ acc, SkipWs(s, val.i))

ObjNext(s, acc, d) ==
    IF At(s, d) = 125 THEN ParseOk(PyDict(acc), d + 1)
    ELSE IF At(s, d) = 44 THEN ObjMembers(s, SkipWs(s, d + 1), acc)
    ELSE ParseFail

\* JSONArray: j is where the next element is expected
ArrElems(s, j, acc) == ArrValue(s, acc, ParseValueAt(s, j, At(s, j)))

ArrValue(s, acc, val) ==
    IF ~val.ok THEN ParseFail ELSE ArrNext(s, Append(acc, val.v), SkipWs(s, val.i))

ArrNext(s, acc, d) ==
    IF At(s, d) = 93 THEN ParseOk(PyList(acc), d + 1)
    ELSE IF At(s, d) = 44 THEN ArrElems(s, SkipWs(s, d + 1), acc)
    ELSE ParseFail

\* JSONDecoder.decode: one value, whitespace around it, nothing else
DecodeResult(s, r) ==
    IF r.ok /\ SkipWs(s, r.i) > Len(s) THEN [ok |-> TRUE, v |-> r.v]
    ELSE [ok |-> FALSE, v |-> PyNone]

json_loads(s) == DecodeResult(s, ParseValue(s, SkipWs(s, 1)))

(***************************************************************************)
(* pagination.py                                                           *)
(***************************************************************************)
s_type == <<116, 121, 112, 101>>
s_offset == <<111, 102, 102, 115, 101, 116>>
s_params == <<112, 97, 114, 97, 109, 115>>
s_query_hash == <<113, 117, 101, 114, 121, 95, 104, 97, 115, 104>>
s_database == <<100, 97, 116, 97, 98, 97, 115, 101>>
s_like == <<108, 105, 107, 101>>
s_not_like == <<110, 111, 116, 95, 108, 105, 107, 101>>
s_table_list == <<116, 97, 98, 108, 101, 95, 108, 105, 115, 116>>
s_query_result == <<113, 117, 101, 114, 121, 95, 114, 101, 115, 117, 108, 116>>

\* encode_cursor with the padding of the base64 text dropped
encode_cursor_unpadded(cursor_data) ==
    SelectSeq(urlsafe_b64encode(json_dumps(cursor_data)), LAMBDA ch : ch # 61)

\* encode_cursor: base64.urlsafe_b64encode(json.dumps(cursor_data, sort_keys=True))
encode_cursor(cursor_data) == urlsafe_b64encode(json_dumps(cursor_data))

\* decode_cursor: [ok |-> TRUE, v |-> the decoded value], or ok = FALSE for the
\* ValueError("Invalid cursor format") raised on any exception
decode_cursor(cursor) ==
    LET raw == urlsafe_b64decode(cursor) IN
    IF ~raw.ok \/ ~Utf8Valid(raw.v) THEN [ok |-> FALSE, v |-> PyNone]
    ELSE json_loads(raw.v)

\* the size of a SHA-256 digest in bytes
DigestBytes == 32

\* hashlib.sha256(data).hexdigest(), idealised as a collision-free digest: the
\* lowercase hexadecimal text of the data itself, filled up to DigestBytes
\* bytes with 0xff (a byte no UTF-8 text holds).  It stands for SHA-256 on
\* texts of at most DigestBytes bytes, and keeps what the code relies on:
\* equal data give equal digests, different data different ones.
sha256_hexdigest(data) ==
    [i \in 1..(2 * DigestBytes) |->
        LET b == IF (i + 1) \div 2 <= Len(data) THEN data[(i + 1) \div 2] ELSE 255
        IN HexDigit(IF i % 2 = 1 THEN b \div 16 ELSE b % 16)]

\* hash_query without the normalisation of the query text
hash_query_unstripped(query) == sha256_hexdigest(query)

\* hash_query that drops all whitespace of the query text
hash_query_squeezed(query) ==
    sha256_hexdigest(SelectSeq(query, LAMBDA ch : ~IsPyWs(ch)))

\* hash_query: hashlib.sha256(query.strip().encode()).hexdigest()
hash_query(query) == sha256_hexdigest(Strip(query))

\* a != b on Python values: a bool is the integer 0 or 1
PyNe(a, b) ==
    LET num(x) == IF x.k = "bool" THEN (IF x.v THEN 1 ELSE 0) ELSE x.v
    IN IF a.k \in {"bool", "int"} /\ b.k \in {"bool", "int"} THEN num(a) # num(b)
       ELSE a.k # b.k \/ a.v # b.v

\* validate_cursor_params that compares the first expected parameter only
validate_cursor_params_first(cursor_data, expected_params) ==
    IF cursor_data.k # "dict" THEN "AttributeError"
    ELSE LET cursor_params == DictGet(cursor_data, s_params, PyDict(EmptyMap))
         IN IF Len(expected_params) = 0 THEN "ok"
            ELSE IF cursor_params.k # "dict" THEN "AttributeError"
            ELSE IF PyNe(DictGet(cursor_params, expected_params[1][1], PyNone),
                         expected_params[1][2])
                 THEN "ValueError"
            ELSE "ok"

\* validate_cursor_params: expected_params is the dict as the sequence of its
\* <<key, value>> items.  The result is "ok" when the function returns,
\* "ValueError" for its "Cursor parameter mismatch" and "AttributeError" when
\* .get is called on a value that is no dict.
validate_cursor_params(cursor_data, expected_params) ==
    IF cursor_data.k # "dict" THEN "AttributeError"
    ELSE LET cursor_params == DictGet(cursor_data, s_params, PyDict(EmptyMap))
         IN IF Len(expected_params) = 0 THEN "ok"
            ELSE IF cursor_params.k # "dict" THEN "AttributeError"
            ELSE IF \E i \in 1..Len(expected_params) :
                       PyNe(DictGet(cursor_params, expected_params[i][1], PyNone),
                            expected_params[i][2])
                 THEN "ValueError"
            ELSE "ok"

(***************************************************************************)
(* The engine behind the gateway.  It is outside the repository: this is   *)
(* the least the handlers need of it.  Database "a" holds the tables x1,   *)
(* y2, x3, ... (ntables of them) and database "b" the one table z1; the    *)
(* relation x holds the rows 1..ntables.  The engine answers a statement   *)
(* from a catalog that does not change, in a fixed order.                  *)
(***************************************************************************)
DbA == <<97>>
DbB == <<98>>
TableName(i) == <<IF i % 2 = 1 THEN 120 ELSE 121, 48 + i>>

Catalog(database) ==
    IF database = DbA THEN [i \in 1..ntables |-> TableName(i)]
    ELSE IF database = DbB THEN << <<122, 49>> >>
    ELSE <<>>

\* name LIKE pattern: % is any run of characters, _ any one character
RECURSIVE LikeMatch(_, _)
LikeMatch(name, pattern) ==
    IF Len(pattern) = 0 THEN Len(name) = 0
    ELSE IF pattern[1] = 37
         THEN LikeMatch(name, Tail(pattern))
              \/ (Len(name) > 0 /\ LikeMatch(Tail(name), pattern))
    ELSE Len(name) > 0
         /\ (pattern[1] = 95 \/ pattern[1] = name[1])
         /\ LikeMatch(Tail(name), Tail(pattern))

\* the tables of a database that pass the LIKE and NOT LIKE clauses of a
\* statement (a clause that is None is absent)
MatchingTables(database, like, not_like) ==
    SelectSeq(Catalog(database),
              LAMBDA name : (like.k = "none" \/ LikeMatch(name, like.v))
                            /\ (not_like.k = "none" \/ ~LikeMatch(name, not_like.v)))

\* rows LIMIT limit OFFSET offset
Window(rows, limit, offset) ==
    IF offset >= Len(rows) \/ limit = 0 THEN <<>>
    ELSE SubSeq(rows, offset + 1,
                IF offset + limit < Len(rows) THEN offset + limit ELSE Len(rows))

\* a statement text as the engine reads it: case and whitespace do not matter
Squeeze(text) ==
    LET t == SelectSeq(text, LAMBDA ch : ~IsPyWs(ch))
    IN [i \in 1..Len(t) |-> IF t[i] >= 65 /\ t[i] <= 90 THEN t[i] + 32 ELSE t[i]]

\* the rows a SELECT text stands for: "select x", "select x limit 2",
\* "with y as (select x) select 2", and of table x1 of database "a"
\* "describe table `a`.`x1`" (its columns, left out), "select count() from
\* `a`.`x1`" and "select * from `a`.`x1` limit 1", "... 5", "... 20"; any
\* other text is an error to the engine
SelectRows(text) ==
    LET q == Squeeze(text)
        all == [i \in 1..ntables |-> i]
    IN IF q = <<115, 101, 108, 101, 99, 116, 120>> THEN [ok |-> TRUE, rows |-> all]
       ELSE IF q = <<115, 101, 108, 101, 99, 116, 120, 108, 105, 109, 105, 116, 50>>
            THEN [ok |-> TRUE, rows |-> Window(all, 2, 0)]
       ELSE IF q = <<119, 105, 116, 104, 121, 97, 115, 40, 115, 101, 108, 101, 99,
                     116, 120, 41, 115, 101, 108, 101, 99, 116, 50>>
            THEN [ok |-> TRUE, rows |-> <<2>>]
       ELSE IF ntables > 0 /\ q = <<100, 101, 115, 99, 114, 105, 98, 101, 116, 97, 98, 108, 101, 96, 97, 96, 46, 96, 120, 49, 96>>
            THEN [ok |-> TRUE, rows |-> <<>>]
       ELSE IF ntables > 0 /\ q = <<115, 101, 108, 101, 99, 116, 99, 111, 117, 110, 116, 40, 41, 102, 114, 111, 109, 96, 97, 96, 46, 96, 120, 49, 96>>
            THEN [ok |-> TRUE, rows |-> <<ntables>>]
       ELSE IF ntables > 0 /\ StartsAt(q, 1, <<115, 101, 108, 101, 99, 116, 42, 102, 114, 111, 109, 96, 97, 96, 46, 96, 120, 49, 96, 108, 105, 109, 105, 116>>)
               /\ SubSeq(q, 25, Len(q)) \in {<<49>>, <<53>>, <<50, 48>>}
            THEN [ok |-> TRUE, rows |-> Window(all, IF Len(q) = 26 THEN 20
                                                    ELSE q[25] - 48, 0)]
       ELSE [ok |-> FALSE, rows |-> <<>>]

\* what a statement selects before LIMIT and OFFSET: [ok, rows]
BaseRows(stmt) ==
    CASE stmt.kind = "tables" ->
           [ok |-> TRUE, rows |-> MatchingTables(stmt.database, stmt.like, stmt.not_like)]
      [] stmt.kind = "query" -> SelectRows(stmt.text)
      [] stmt.kind = "describe" -> [ok |-> TRUE, rows |-> <<>>]
      [] stmt.kind = "table" ->
           [ok |-> TRUE,
            rows |-> SelectSeq(Catalog(stmt.database), LAMBDA name : name = stmt.table)]
      [] stmt.kind = "show databases" -> [ok |-> TRUE, rows |-> <<DbA, DbB>>]
      [] stmt.kind = "count" ->
           [ok |-> \E i \in 1..Len(Catalog(stmt.database)) :
                       Catalog(stmt.database)[i] = stmt.table,
            rows |-> <<ntables>>]
      [] stmt.kind = "sample" ->
           [ok |-> \E i \in 1..Len(Catalog(stmt.database)) :
                       Catalog(stmt.database)[i] = stmt.table,
            rows |-> Window([i \in 1..ntables |-> i], stmt.limit.v, 0)]
      [] OTHER -> [ok |-> FALSE, rows |-> <<>>]

\* the text of a statement has a LIMIT or an OFFSET clause of its own
HasLimitClause(text) ==
    \E i \in 1..Len(text) :
        \/ StartsAt(Squeeze(text), i, <<108, 105, 109, 105, 116>>)
        \/ StartsAt(Squeeze(text), i, <<111, 102, 102, 115, 101, 116>>)

\* the number f"OFFSET {offset}" reads as to the engine: that of an int that
\* is not negative and of a str of digits, -1 for anything else
OffsetWritten(offset) ==
    IF offset.k = "int" THEN (IF offset.v >= 0 THEN offset.v ELSE -1)
    ELSE IF offset.k = "str" /\ Len(offset.v) > 0 /\ DigitsEnd(offset.v, 1) > Len(offset.v)
         THEN DigitsValue(offset.v, 1, Len(offset.v) + 1, 0)
    ELSE -1

\* LIMIT and OFFSET applied to what the statement selects; they must be
\* written as non-negative integers, and a text that has such a clause of
\* its own takes a second one only around it, as a sub-query (appended, the
\* statement is a syntax error); DESCRIBE takes none
Paged(stmt, base) ==
    IF ~base.ok THEN base
    ELSE IF ~(stmt.kind \in {"tables", "query"} /\ stmt.limit.k # "none") THEN base
    ELSE IF stmt.kind = "query" /\ ~stmt.wrapped /\ HasLimitClause(stmt.text)
         THEN [ok |-> FALSE, rows |-> <<>>]
    ELSE IF stmt.kind = "query" /\ ~stmt.wrapped
            /\ StartsAt(Squeeze(stmt.text), 1, <<100, 101, 115, 99, 114, 105, 98, 101>>)
         THEN [ok |-> FALSE, rows |-> <<>>]
    ELSE IF OffsetWritten(stmt.offset) >= 0
         THEN [ok |-> TRUE,
               rows |-> Window(base.rows, stmt.limit.v, OffsetWritten(stmt.offset))]
    ELSE [ok |-> FALSE, rows |-> <<>>]

\* the states of the engine: answering, unreachable (no client can be
\* created), and refusing every DESCRIBE TABLE
EngineStates == {"up", "down", "nodescribe"}

\* the engine refuses the statement whatever it says
Refused(stmt) == engine = "nodescribe" /\ stmt.kind = "describe"

\* the message of the exception a failing statement ends with
EngineMessage(stmt) ==
    IF engine = "down" THEN "Connection refused"
    ELSE IF Refused(stmt) THEN "Not enough privileges"
    ELSE "Syntax error"

\* the engine's answer to one statement: [ok, rows]
EngineRun(stmt) ==
    IF Refused(stmt) THEN [ok |-> FALSE, rows |-> <<>>] ELSE Paged(stmt, BaseRows(stmt))

(***************************************************************************)
(* mcp_server.py: the gateway                                              *)
(***************************************************************************)
\* bool(x) of an Optional[str] argument: None and "" are false
Truthy(x) == x.k = "str" /\ Len(x.v) > 0

\* the settings execute_query attaches to its statement (the memory ceiling,
\* 2 GiB, is counted in MiB here)
QuerySettings ==
    [readonly |-> 1,
     hdx_query_max_execution_time |-> query_timeout_sec,
     hdx_query_max_attempts |-> 1,
     hdx_query_max_result_rows |-> 100000,
     hdx_query_max_memory_usage |-> 2 * 1024]

\* client.command(query) is called with no settings argument
NoSettings == [name \in {} |-> 0]

\* what one execution did: a client created, a statement sent, the answer
\* res; when the engine is unreachable create_hydrolix_client raises and no
\* statement is sent.  error is the text of the error raised: the prefix
\* `failure`, then str(err)
Execution(stmt, method, settings, failure, res) ==
    IF engine = "down"
    THEN [ok |-> FALSE, rows |-> <<>>, error |-> <<failure, EngineMessage(stmt)>>,
          sent |-> <<>>, clients |-> 1]
    ELSE [ok |-> res.ok,
          rows |-> res.rows,
          error |-> IF res.ok THEN <<>> ELSE <<failure, EngineMessage(stmt)>>,
          sent |-> <<[stmt |-> stmt, method |-> method, settings |-> settings]>>,
          clients |-> 1]

\* clickhouse.run_query: client.query(sql) on the agent's own client
agent_client_query(sql) ==
    Execution(sql, "query", NoSettings, "engine", EngineRun(sql))

\* execute_query that lets the failure out as it came
execute_query_unwrapped(query) ==
    Execution(query, "query", QuerySettings, "DatabaseError", EngineRun(query))

\* execute_query: a new client, client.query(query, settings=...); any failure
\* is raised as ToolError("Query execution failed: ...")
execute_query(query) ==
    Execution(query, "query", QuerySettings, "Query execution failed", EngineRun(query))

\* execute_cmd: a new client, client.command(query); any failure is raised as
\* ToolError("Command execution failed: ...")
execute_cmd(query) ==
    Execution(query, "command", NoSettings, "Command execution failed", EngineRun(query))

\* a tool call that raised: nothing is returned
Raised(exception, error, sent, clients) ==
    [outcome |-> exception, error |-> error, resp |-> [legacy |-> FALSE],
     sent |-> sent, clients |-> clients]

\* a tool call that returned resp
Returned(resp, sent, clients) ==
    [outcome |-> "ok", error |-> <<>>, resp |-> resp, sent |-> sent, clients |-> clients]

\* two runs of executions, one after the other
Then(one, rest) ==
    [ok |-> rest.ok, error |-> rest.error, sent |-> one.sent \o rest.sent,
     clients |-> one.clients + rest.clients]

\* _populate_table_metadata for the tables of a page, in order: one
\* DESCRIBE TABLE each, through execute_query
RECURSIVE PopulateAll(_, _, _)
RECURSIVE PopulateRest(_, _, _, _)
PopulateAll(database, tables, i) ==
    IF i > Len(tables) THEN [ok |-> TRUE, error |-> <<>>, sent |-> <<>>, clients |-> 0]
    ELSE PopulateRest(database, tables, i,
                      execute_query([kind |-> "describe", database |-> database,
                                     table |-> tables[i]]))

PopulateRest(database, tables, i, one) ==
    IF ~one.ok THEN one ELSE Then(one, PopulateAll(database, tables, i + 1))

\* the offset the next cursor of a page carries, one row too far
NextOffsetSkipping(offset, page_size) == offset + page_size + 1

\* the offset the next cursor of a page carries: offset + page_size
NextOffset(offset, page_size) == offset + page_size

\* the cursor list_tables mints
TableListCursor(offset, database, like, not_like) ==
    PyDict((s_type :> PyStr(s_table_list)) @@ (s_offset :> PyInt(offset))
           @@ (s_params :> PyDict((s_database :> PyStr(database)) @@ (s_like :> like)
                                  @@ (s_not_like :> not_like))))

\* the cursor run_select_query mints
QueryResultCursor(offset, query_hash) ==
    PyDict((s_type :> PyStr(s_query_result)) @@ (s_offset :> PyInt(offset))
           @@ (s_query_hash :> PyStr(query_hash)))

\* the cursor check of list_tables on the decoded cursor: [ok, offset]; ok =
\* FALSE is the ToolError("Invalid cursor: ...") raised for any exception of
\* the block
ListCursorChecked(database, like, not_like, cursor_data) ==
    IF ~cursor_data.ok THEN [ok |-> FALSE, offset |-> PyNone]
    ELSE IF validate_cursor_params(
                cursor_data.v,
                << <<s_database, PyStr(database)>>, <<s_like, like>>,
                   <<s_not_like, not_like>> >>) # "ok"
         THEN [ok |-> FALSE, offset |-> PyNone]
    ELSE [ok |-> TRUE, offset |-> DictGet(cursor_data.v, s_offset, PyInt(0))]

\* the items the server has handed out to the paginations it serves
RECURSIVE Served(_)
Served(ws) == IF ws = <<>> THEN 0 ELSE Head(ws).got + Served(Tail(ws))

\* a cursor check that resumes from a position the server keeps, the number
\* of items it has handed out, when any cursor is passed
ListCursorCheckSession(database, like, not_like, cursor) ==
    IF ~Truthy(cursor) THEN [ok |-> TRUE, offset |-> PyInt(0)]
    ELSE [ok |-> TRUE, offset |-> PyInt(Served(walks))]

\* if cursor: ... (None and "" are no cursor)
ListCursorCheck(database, like, not_like, cursor) ==
    IF ~Truthy(cursor) THEN [ok |-> TRUE, offset |-> PyInt(0)]
    ELSE ListCursorChecked(database, like, not_like, decode_cursor(cursor.v))

\* list_tables after its statements: the response
ListTablesResponse(database, like, not_like, paging, offset, has_more, tables, runs) ==
    IF ~runs.ok THEN Raised("ToolError", runs.error, runs.sent, runs.clients)
    ELSE IF ~paging THEN Returned([legacy |-> TRUE, tables |-> tables], runs.sent, runs.clients)
    ELSE IF offset.k # "int" THEN Raised("TypeError", <<>>, runs.sent, runs.clients)
    ELSE Returned(
             [legacy |-> FALSE,
              tables |-> tables,
              nextCursor |->
                  IF has_more
                  THEN PyStr(encode_cursor(TableListCursor(
                           NextOffset(offset.v, list_tables_page_size),
                           database, like, not_like)))
                  ELSE PyNone,
              pageSize |-> Len(tables),
              totalRetrieved |-> offset.v + Len(tables)],
             runs.sent, runs.clients)

\* list_tables after the first statement: the page is trimmed to page_size
\* and the metadata of its tables fetched
ListTablesPage(database, like, not_like, paging, offset, result, tables) ==
    IF ~result.ok THEN Raised("ToolError", result.error, result.sent, result.clients)
    ELSE ListTablesResponse(database, like, not_like, paging, offset,
                            paging /\ Len(result.rows) > list_tables_page_size, tables,
                            Then(result, PopulateAll(database, tables, 1)))

ListTablesQueried(database, like, not_like, paging, offset, result) ==
    ListTablesPage(database, like, not_like, paging, offset, result,
                   IF paging /\ Len(result.rows) > list_tables_page_size
                   THEN SubSeq(result.rows, 1, list_tables_page_size)
                   ELSE result.rows)

\* list_tables after the cursor check: the statement is built and sent
ListTablesChecked(database, like, not_like, paging, chk) ==
    IF ~chk.ok THEN Raised("ToolError", <<"Invalid cursor">>, <<>>, 0)
    ELSE ListTablesQueried(
             database, like, not_like, paging, chk.offset,
             execute_query(
                 [kind |-> "tables", database |-> database,
                  like |-> IF Truthy(like) THEN like ELSE PyNone,
                  not_like |-> IF Truthy(not_like) THEN not_like ELSE PyNone,
                  limit |-> IF paging THEN PyInt(list_tables_page_size + 1) ELSE PyNone,
                  offset |-> IF paging THEN chk.offset ELSE PyNone]))

\* list_tables(database, like, not_like, cursor, paginate)
list_tables(database, like, not_like, cursor, paginate) ==
    ListTablesChecked(database, like, not_like, paginate /\ enable_pagination,
                      ListCursorCheck(database, like, not_like, cursor))

\* str.upper() on the letters a..z
Upper(text) ==
    [i \in 1..Len(text) |-> IF text[i] >= 97 /\ text[i] <= 122 THEN text[i] - 32 ELSE text[i]]

\* part in text
Contains(text, part) == \E i \in 1..Len(text) : StartsAt(text, i, part)

\* str.rstrip(";")
RECURSIVE RStripSemicolons(_)
RStripSemicolons(text) ==
    IF Len(text) > 0 /\ text[Len(text)] = 59
    THEN RStripSemicolons(SubSeq(text, 1, Len(text) - 1))
    ELSE text

\* _add_pagination_to_query that appends the clause to every text
AddPaginationAppended(query, limit, offset) ==
    [kind |-> "query", text |-> query, wrapped |-> FALSE, limit |-> PyInt(limit),
     offset |-> offset]

\* _add_pagination_to_query: the statement f"{query} LIMIT {limit} OFFSET
\* {offset}", or the same around "SELECT * FROM ({query}) AS
\* paginated_subquery" when the text holds LIMIT or OFFSET, as the record of
\* its parts
AddPagination(query, limit, offset) ==
    [kind |-> "query",
     text |-> query,
     wrapped |-> Contains(Upper(query), <<76, 73, 77, 73, 84>>)
                 \/ Contains(Upper(query), <<79, 70, 70, 83, 69, 84>>),
     limit |-> PyInt(limit),
     offset |-> offset]

add_pagination_to_query(query, limit, offset) ==
    AddPagination(RStripSemicolons(Strip(query)), limit, offset)

\* the cursor check of run_select_query that takes a cursor without a
\* query_hash for one of any query
QueryCursorCheckedUnbound(query, cursor_data) ==
    IF ~cursor_data.ok \/ cursor_data.v.k # "dict" THEN [ok |-> FALSE, offset |-> PyNone]
    ELSE IF /\ DictGet(cursor_data.v, s_query_hash, PyNone) # PyNone
            /\ PyNe(DictGet(cursor_data.v, s_query_hash, PyNone), PyStr(hash_query(query)))
         THEN [ok |-> FALSE, offset |-> PyNone]
    ELSE [ok |-> TRUE, offset |-> DictGet(cursor_data.v, s_offset, PyInt(0))]

\* the cursor check of run_select_query on the decoded cursor: [ok, offset]
QueryCursorChecked(query, cursor_data) ==
    IF ~cursor_data.ok \/ cursor_data.v.k # "dict" THEN [ok |-> FALSE, offset |-> PyNone]
    ELSE IF PyNe(DictGet(cursor_data.v, s_query_hash, PyNone), PyStr(hash_query(query)))
         THEN [ok |-> FALSE, offset |-> PyNone]
    ELSE [ok |-> TRUE, offset |-> DictGet(cursor_data.v, s_offset, PyInt(0))]

QueryCursorCheck(query, cursor) ==
    IF ~Truthy(cursor) THEN [ok |-> TRUE, offset |-> PyInt(0)]
    ELSE QueryCursorChecked(query, decode_cursor(cursor.v))

\* run_select_query after its statement: the response
RunSelectQueryResponse(query, paging, offset, result, has_more) ==
    IF ~result.ok
    THEN Raised("ToolError",
                <<"Unexpected error during query execution">> \o result.error,
                result.sent, result.clients)
    ELSE IF ~paging
         THEN Returned([legacy |-> TRUE, rows |-> result.rows], result.sent, result.clients)
    ELSE IF offset.k # "int"
         THEN Raised("ToolError", <<"Unexpected error during query execution">>,
                     result.sent, result.clients)
    ELSE Returned(
             [legacy |-> FALSE,
              rows |-> IF has_more THEN SubSeq(result.rows, 1, query_result_page_size)
                       ELSE result.rows,
              nextCursor |->
                  IF has_more
                  THEN PyStr(encode_cursor(QueryResultCursor(
                           NextOffset(offset.v, query_result_page_size), hash_query(query))))
                  ELSE PyNone,
              pageSize |-> IF has_more THEN query_result_page_size ELSE Len(result.rows),
              totalRetrieved |-> offset.v + (IF has_more THEN query_result_page_size
                                             ELSE Len(result.rows)),
              hasMore |-> has_more],
             result.sent, result.clients)

\* run_select_query that sees another page in a full page
RunSelectQueryExecutedFull(query, paging, offset, result) ==
    RunSelectQueryResponse(query, paging, offset, result,
                           Len(result.rows) >= query_result_page_size)

RunSelectQueryExecuted(query, paging, offset, result) ==
    RunSelectQueryResponse(query, paging, offset, result,
                           Len(result.rows) > query_result_page_size)

\* run_select_query after the cursor check: the statement is built and sent
RunSelectQueryChecked(query, paging, chk) ==
    IF ~chk.ok THEN Raised("ToolError", <<"Invalid cursor">>, <<>>, 0)
    ELSE RunSelectQueryExecuted(
             query, paging, chk.offset,
             execute_query(
                 IF paging
                 THEN add_pagination_to_query(query, query_result_page_size + 1, chk.offset)
                 ELSE [kind |-> "query", text |-> query, wrapped |-> FALSE,
                       limit |-> PyNone, offset |-> PyNone]))

\* run_select_query that pages whenever the process-wide switch is on
run_select_query_paged(query, cursor, paginate) ==
    RunSelectQueryChecked(query, enable_pagination, QueryCursorCheck(query, cursor))

\* run_select_query(query, cursor, paginate)
run_select_query(query, cursor, paginate) ==
    RunSelectQueryChecked(query, paginate /\ enable_pagination,
                          QueryCursorCheck(query, cursor))

\* list_databases: execute_cmd("SHOW DATABASES")
ListDatabasesResponse(result) ==
    IF ~result.ok THEN Raised("ToolError", result.error, result.sent, result.clients)
    ELSE Returned([legacy |-> TRUE, databases |-> result.rows], result.sent, result.clients)

list_databases == ListDatabasesResponse(execute_cmd([kind |-> "show databases"]))

\* get_table_info after its first statement: no row is ToolError("Table ...
\* not found"), else the metadata of the table is fetched
GetTableInfoResponse(table, runs) ==
    IF ~runs.ok THEN Raised("ToolError", runs.error, runs.sent, runs.clients)
    ELSE Returned([legacy |-> TRUE, table |-> table], runs.sent, runs.clients)

\* get_table_info that describes the table it was asked about when the
\* catalog has no row for it
GetTableInfoDescribing(database, table, result) ==
    IF ~result.ok THEN Raised("ToolError", result.error, result.sent, result.clients)
    ELSE GetTableInfoResponse(
             table, Then(result, PopulateAll(database, <<table>>, 1)))

GetTableInfoQueried(database, table, result) ==
    IF ~result.ok THEN Raised("ToolError", result.error, result.sent, result.clients)
    ELSE IF result.rows = <<>>
         THEN Raised("ToolError", <<"Table not found">>, result.sent, result.clients)
    ELSE GetTableInfoResponse(
             table, Then(result, PopulateAll(database, <<result.rows[1]>>, 1)))

\* get_table_info(database, table)
get_table_info(database, table) ==
    GetTableInfoQueried(database, table,
                        execute_query([kind |-> "table", database |-> database,
                                       table |-> table]))

(***************************************************************************)
(* hdx_agent/tools: the agent-side wrappers                                *)
(***************************************************************************)
\* sql.strip().upper().startswith(("SELECT", "WITH"))
IsSelectOrWith(sql_upper) ==
    StartsAt(sql_upper, 1, <<83, 69, 76, 69, 67, 84>>)
    \/ StartsAt(sql_upper, 1, <<87, 73, 84, 72>>)

StartsWithSelectOrWith(sql) == IsSelectOrWith(Upper(Strip(sql)))

\* mcp_hydrolix3.run_select_query: the check, then the gateway's tool
agent_run_select_query(query) ==
    IF ~StartsWithSelectOrWith(query)
    THEN Returned([legacy |-> TRUE, error |-> "Only SELECT queries are allowed."], <<>>, 0)
    ELSE run_select_query(query, PyNone, TRUE)

\* clickhouse.run_query: get_client() comes first, then the check, then
\* client.query(sql) on the agent's own client, without settings
AgentRunQueryResponse(result) ==
    IF ~result.ok
    THEN Returned([legacy |-> TRUE, error |-> "str(e)"], result.sent, result.clients)
    ELSE Returned([legacy |-> TRUE, rows |-> result.rows], result.sent, result.clients)

agent_run_query(sql) ==
    IF ~StartsWithSelectOrWith(sql)
    THEN Returned([legacy |-> TRUE, error |-> "Only SELECT queries are allowed for safety."],
                  <<>>, 1)
    ELSE AgentRunQueryResponse(
             agent_client_query([kind |-> "query", text |-> sql, wrapped |-> FALSE,
                                 limit |-> PyNone, offset |-> PyNone]))

\* ch.isalnum() on ASCII text: a letter or a digit
IsAlnumChar(ch) ==
    \/ ch >= 97 /\ ch <= 122
    \/ ch >= 65 /\ ch <= 90
    \/ ch >= 48 /\ ch <= 57

\* name.replace("_", "").isalnum(): something is left without the
\* underscores, and all of it is letters and digits
ValidIdentifier(name) ==
    /\ \E i \in 1..Len(name) : name[i] # 95
    /\ \A i \in 1..Len(name) : name[i] = 95 \/ IsAlnumChar(name[i])

\* _validate_identifier(name, label): an error dict, or None
validate_identifier(name, label) ==
    IF ~ValidIdentifier(name) THEN PyStr(<<"Invalid", label, "name">>) ELSE PyNone

\* min(max(1, limit), 20)
ClampLimit(limit) ==
    IF limit < 1 THEN 1 ELSE IF limit > 20 THEN 20 ELSE limit

\* f"DESCRIBE TABLE `{database}`.`{table}`"
DescribeText(database, table) ==
    <<68, 69, 83, 67, 82, 73, 66, 69, 32, 84, 65, 66, 76, 69, 32, 96>> \o database \o <<96, 46, 96>> \o table \o <<96>>

\* f"SELECT count() FROM `{database}`.`{table}`"
CountText(database, table) ==
    <<83, 69, 76, 69, 67, 84, 32, 99, 111, 117, 110, 116, 40, 41, 32, 70, 82, 79, 77, 32, 96>> \o database \o <<96, 46, 96>> \o table \o <<96>>

\* f"SELECT * FROM `{database}`.`{table}` LIMIT {limit}"
SampleText(database, table, limit) ==
    <<83, 69, 76, 69, 67, 84, 32, 42, 32, 70, 82, 79, 77, 32, 96>> \o database \o <<96, 46, 96>> \o table \o <<96, 32, 76, 73, 77, 73, 84, 32>> \o IntText(limit)

\* a tool of the agent returns its error dict: `except Exception as e:
\* return {"error": str(e)}`
AgentError(error, sent, clients) ==
    Returned([legacy |-> TRUE, error |-> error], sent, clients)

\* the gateway's run_select_query called for the agent, twice if the first
\* call returns: what the two calls did together
AgentSecondCall(first, second) ==
    IF second.outcome # "ok"
    THEN AgentError(second.error, first.sent \o second.sent, first.clients + second.clients)
    ELSE Returned([legacy |-> TRUE, columns |-> first.resp.rows, rows |-> second.resp.rows],
                  first.sent \o second.sent, first.clients + second.clients)

AgentDescribed(database, table, first) ==
    IF first.outcome # "ok" THEN AgentError(first.error, first.sent, first.clients)
    ELSE AgentSecondCall(first, run_select_query(CountText(database, table), PyNone, TRUE))

\* mcp_hydrolix3.describe_table: both names are validated, then DESCRIBE
\* TABLE and SELECT count() go through the gateway's run_select_query
agent_describe_table(database, table) ==
    IF validate_identifier(database, "database") # PyNone
    THEN AgentError(validate_identifier(database, "database").v, <<>>, 0)
    ELSE IF validate_identifier(table, "table") # PyNone
    THEN AgentError(validate_identifier(table, "table").v, <<>>, 0)
    ELSE AgentDescribed(database, table,
                        run_select_query(DescribeText(database, table), PyNone, TRUE))

AgentSampled(first) ==
    IF first.outcome # "ok" THEN AgentError(first.error, first.sent, first.clients)
    ELSE Returned([legacy |-> TRUE, sample_rows |-> first.resp.rows],
                  first.sent, first.clients)

\* mcp_hydrolix3.get_sample_data: both names are validated, then SELECT *
\* ... LIMIT goes through the gateway's run_select_query
agent_get_sample_data(database, table, limit) ==
    IF validate_identifier(database, "database") # PyNone
    THEN AgentError(validate_identifier(database, "database").v, <<>>, 0)
    ELSE IF validate_identifier(table, "table") # PyNone
    THEN AgentError(validate_identifier(table, "table").v, <<>>, 0)
    ELSE AgentSampled(run_select_query(SampleText(database, table, ClampLimit(limit)),
                                       PyNone, TRUE))

\* clickhouse.py: the second client.query of describe_table, on the client
\* of the first
ClientCounted(first, second) ==
    IF ~second.ok THEN AgentError(second.error, first.sent \o second.sent, 1)
    ELSE Returned([legacy |-> TRUE, columns |-> first.rows,
                   approximate_row_count |-> second.rows],
                  first.sent \o second.sent, 1)

ClientDescribed(database, table, first) ==
    IF ~first.ok THEN AgentError(first.error, first.sent, 1)
    ELSE ClientCounted(first, agent_client_query([kind |-> "count", database |-> database,
                                                  table |-> table]))

\* clickhouse.describe_table: get_client() comes first, then the two names
\* are validated, then DESCRIBE TABLE and SELECT count() are sent
clickhouse_describe_table(database, table) ==
    IF engine = "down" THEN AgentError(<<"engine", "Connection refused">>, <<>>, 1)
    ELSE IF ~ValidIdentifier(database)
    THEN AgentError(<<"Invalid", "database", "name">>, <<>>, 1)
    ELSE IF ~ValidIdentifier(table)
    THEN AgentError(<<"Invalid", "table", "name">>, <<>>, 1)
    ELSE ClientDescribed(database, table,
                         agent_client_query([kind |-> "describe", database |-> database,
                                             table |-> table]))

ClientSampled(first) ==
    IF ~first.ok THEN AgentError(first.error, first.sent, 1)
    ELSE Returned([legacy |-> TRUE, sample_rows |-> first.rows], first.sent, 1)

\* clickhouse.get_sample_data: get_client() comes first, then the two names
\* are validated, then SELECT * ... LIMIT is sent
clickhouse_get_sample_data(database, table, limit) ==
    IF engine = "down" THEN AgentError(<<"engine", "Connection refused">>, <<>>, 1)
    ELSE IF ~ValidIdentifier(database)
    THEN AgentError(<<"Invalid", "database", "name">>, <<>>, 1)
    ELSE IF ~ValidIdentifier(table)
    THEN AgentError(<<"Invalid", "table", "name">>, <<>>, 1)
    ELSE ClientSampled(agent_client_query([kind |-> "sample", database |-> database,
                                           table |-> table,
                                           limit |-> PyInt(ClampLimit(limit))]))

(***************************************************************************)
(* mcp_server.py: summary tables.  A Column is a record of column_type     *)
(* (text) and default_kind, default_expression, column_category,           *)
(* base_function, merge_function (each None or a str).                     *)
(***************************************************************************)
s_Simple == <<83, 105, 109, 112, 108, 101>>
s_AggregateFunction == <<65, 103, 103, 114, 101, 103, 97, 116, 101, 70, 117, 110, 99, 116, 105, 111, 110, 40>>
s_Merge == <<77, 101, 114, 103, 101>>
s_MergeOpen == <<77, 101, 114, 103, 101, 40>>
s_ALIAS == <<65, 76, 73, 65, 83>>
s_aggregate == <<97, 103, 103, 114, 101, 103, 97, 116, 101>>
s_alias_aggregate == <<97, 108, 105, 97, 115, 95, 97, 103, 103, 114, 101, 103, 97, 116, 101>>
s_dimension == <<100, 105, 109, 101, 110, 115, 105, 111, 110>>

\* \w on ASCII text: a letter, a digit or _
IsWord(ch) ==
    \/ ch >= 97 /\ ch <= 122
    \/ ch >= 65 /\ ch <= 90
    \/ ch >= 48 /\ ch <= 57
    \/ ch = 95

\* the end of the longest match of [^,()]* from i on: the first place at or
\* after i that holds , ( or ) or lies behind the text
RECURSIVE FuncNameEnd(_, _)
FuncNameEnd(text, i) ==
    IF i > Len(text) \/ text[i] \in {44, 40, 41} THEN i ELSE FuncNameEnd(text, i + 1)

\* the end of the longest match of \w* from i on
RECURSIVE WordEnd(_, _)
WordEnd(text, i) ==
    IF i > Len(text) \/ ~IsWord(text[i]) THEN i ELSE WordEnd(text, i + 1)

\* the first place at or after i that holds ch, 0 when there is none
RECURSIVE IndexFrom(_, _, _)
IndexFrom(text, i, ch) ==
    IF i > Len(text) THEN 0
    ELSE IF text[i] = ch THEN i
    ELSE IndexFrom(text, i + 1, ch)

\* group 1 of the match whose [^,()]+ runs from q to e - 1: with the
\* parameter list (\([^)]*\))? when one follows and closes
FunctionGroup(column_type, q, e, close) ==
    IF e <= Len(column_type) /\ column_type[e] = 40 /\ close # 0
    THEN SubSeq(column_type, q, close)
    ELSE SubSeq(column_type, q, e - 1)

FunctionFrom(column_type, q, e) ==
    IF e = q THEN PyNone
    ELSE PyStr(Strip(FunctionGroup(column_type, q, e, IndexFrom(column_type, e + 1, 41))))

FunctionAfter(column_type, p) ==
    IF ~StartsAt(column_type, p, s_AggregateFunction) THEN PyNone
    ELSE FunctionFrom(column_type, p + Len(s_AggregateFunction),
                      FuncNameEnd(column_type, p + Len(s_AggregateFunction)))

\* extract_function_from_type: re.match(r"^(?:Simple)?AggregateFunction\(
\* ([^,()]+(?:\([^)]*\))?)", column_type), group(1).strip(), or None
extract_function_from_type(column_type) ==
    FunctionAfter(column_type,
                  IF StartsAt(column_type, 1, s_Simple) THEN Len(s_Simple) + 1 ELSE 1)

\* get_merge_function that puts Merge behind whatever it is given
get_merge_function_appended(base_function) == base_function \o s_Merge

\* where $ matches: behind the text, or before a newline that ends it
DollarAt(text) ==
    IF Len(text) > 0 /\ text[Len(text)] = 10 THEN Len(text) - 1 ELSE Len(text)

\* re.match(r"^(\w+)(\(.+\))$", base_function) with \w+ ending before w and
\* $ matching behind end
MergeMatches(base_function, w, end) ==
    /\ w > 1
    /\ w <= end
    /\ base_function[w] = 40
    /\ end >= w + 2
    /\ base_function[end] = 41
    /\ \A i \in (w + 1)..(end - 1) : base_function[i] # 10

MergeAt(base_function, w, end) ==
    IF MergeMatches(base_function, w, end)
    THEN SubSeq(base_function, 1, w - 1) \o s_Merge \o SubSeq(base_function, w, end)
    ELSE base_function \o s_Merge

\* get_merge_function
get_merge_function(base_function) ==
    MergeAt(base_function, WordEnd(base_function, 1), DollarAt(base_function))

\* enrich_column_metadata, the type naming a function type_func
EnrichedAs(column, type_func) ==
    IF Truthy(type_func)
    THEN [column EXCEPT !.column_category = PyStr(s_aggregate),
                        !.base_function = type_func,
                        !.merge_function = PyStr(get_merge_function(type_func.v))]
    ELSE IF /\ column.default_kind = PyStr(s_ALIAS)
            /\ Truthy(column.default_expression)
            /\ Contains(column.default_expression.v, s_MergeOpen)
         THEN [column EXCEPT !.column_category = PyStr(s_alias_aggregate),
                             !.base_function = PyNone,
                             !.merge_function = PyNone]
    ELSE [column EXCEPT !.column_category = PyStr(s_dimension)]

\* enrich_column_metadata
enrich_column_metadata(column) ==
    EnrichedAs(column, extract_function_from_type(column.column_type))

\* column.column_category in ("aggregate", "alias_aggregate")
IsAggregateCategory(column) ==
    column.column_category \in {PyStr(s_aggregate), PyStr(s_alias_aggregate)}

\* classify_table_columns that takes the aggregate columns only for aggregates
classify_aggregate_only(columns) ==
    [is_summary_table |->
         Len(SelectSeq(columns, LAMBDA c : c.column_category = PyStr(s_aggregate))) > 0,
     aggregate_columns |->
         SelectSeq(columns, LAMBDA c : c.column_category = PyStr(s_aggregate)),
     dimension_columns |->
         SelectSeq(columns, LAMBDA c : c.column_category # PyStr(s_aggregate))]

\* classify_table_columns
classify_table_columns(columns) ==
    [is_summary_table |-> Len(SelectSeq(columns, IsAggregateCategory)) > 0,
     aggregate_columns |-> SelectSeq(columns, IsAggregateCategory),
     dimension_columns |-> SelectSeq(columns, LAMBDA c : ~IsAggregateCategory(c))]

\* no column is looked at
MetaIdle == mphase = "idle" /\ min = [kind |-> "none"] /\ mout = [kind |-> "none"]

\* no concurrent request and no pagination is followed
SessionsIdle ==
    /\ client_shared_pool = [maxsize |-> 0, idle |-> 0]
    /\ reqs = <<>>
    /\ handles = {}
    /\ wire = {}
    /\ walks = <<>>

(***************************************************************************)
(* auth/mcp_providers.py, mcp_env.py: who a request is                     *)
(*                                                                         *)
(* A token is [k |-> "token", name, expires_at]: expires_at is what a      *)
(* verifier that reads the expiry of a token reports for it (None or an    *)
(* int); the token named "X" is one such a verifier does not accept.       *)
(* An authentication result is [k |-> "none"] or [k |-> "user", auth_info].*)
(***************************************************************************)
AuthNone == [k |-> "none"]

\* HydrolixCredentialChain.verify_token: every token is taken, expires_at=None
verify_token(token) ==
    [k |-> "info", token |-> token.name, expires_at |-> PyNone, hydrolix |-> TRUE]

\* another McpTokenVerifier: None for a token it does not accept, else an
\* AccessToken with the expiry of the token
generic_verify_token(token) ==
    IF token.name = "X" THEN AuthNone
    ELSE [k |-> "info", token |-> token.name, expires_at |-> token.expires_at,
          hydrolix |-> FALSE]

\* self.token_verifier.verify_token(token)
VerifyToken(token) ==
    IF token_verifier = "hydrolix" THEN verify_token(token) ELSE generic_verify_token(token)

\* auth_info.expires_at and auth_info.expires_at < int(time.time())
Expired(auth_info) ==
    /\ auth_info.expires_at.k = "int"
    /\ auth_info.expires_at.v # 0
    /\ auth_info.expires_at.v < now

\* the end of a backend's authenticate: None for no auth_info or an expired
\* one, else (AuthCredentials(scopes), AuthenticatedUser(auth_info))
Authenticated(auth_info) ==
    IF auth_info.k = "none" THEN AuthNone
    ELSE IF Expired(auth_info) THEN AuthNone
    ELSE [k |-> "user", auth_info |-> auth_info]

\* GetParamAuthBackend.authenticate
GetParamAuthenticate(c) ==
    IF c.param.k = "none" THEN AuthNone ELSE Authenticated(VerifyToken(c.param))

\* BearerAuthBackend.authenticate (mcp.server.auth.middleware.bearer_auth):
\* the token of an "Authorization: Bearer ..." header, verified the same way
BearerAuthenticate(c) ==
    IF c.authorization.k = "none" THEN AuthNone
    ELSE IF c.authorization.scheme # "bearer" THEN AuthNone
    ELSE Authenticated(VerifyToken(c.authorization.token))

\* backend.authenticate(conn)
BackendAuthenticate(backend, c) ==
    IF backend = "bearer" THEN BearerAuthenticate(c) ELSE GetParamAuthenticate(c)

\* ChainedAuthBackend.authenticate: the first result that is not None, and
\* the backends invoked (by their place in the list), in order
RECURSIVE ChainFrom(_, _, _)
ChainNext(bs, i, invoked, result) ==
    IF result.k # "none" THEN [result |-> result, invoked |-> invoked]
    ELSE ChainFrom(bs, i + 1, invoked)

ChainFrom(bs, i, invoked) ==
    IF i > Len(bs) THEN [result |-> AuthNone, invoked |-> invoked]
    ELSE ChainNext(bs, i, Append(invoked, i), BackendAuthenticate(bs[i], conn))

\* authenticate that asks every backend before it answers
authenticate_exhaustive(bs) ==
    [result |-> ChainFrom(bs, 1, <<>>).result, invoked |-> [i \in 1..Len(bs) |-> i]]

authenticate(bs) == ChainFrom(bs, 1, <<>>)

\* HydrolixCredentialChain.get_middleware: the backends of the server
get_middleware == <<"bearer", "param">>

\* HydrolixConfig.__init__: the default credential
NoCredential == [kind |-> "none"]
ServiceAccountToken(token) == [kind |-> "token", token |-> token]
UsernamePassword == [kind |-> "userpass"]

default_credential ==
    IF environ.token # "" THEN ServiceAccountToken(environ.token)
    ELSE IF environ.userpass THEN UsernamePassword
    ELSE NoCredential

\* creds_with that prefers the default credential
creds_with_default_first(request_credential) ==
    IF default_credential # NoCredential THEN [ok |-> TRUE, cred |-> default_credential]
    ELSE IF request_credential # NoCredential THEN [ok |-> TRUE, cred |-> request_credential]
    ELSE [ok |-> FALSE, cred |-> NoCredential]

\* HydrolixConfig.creds_with: [ok, cred]; ok = FALSE is the ValueError("No
\* credentials available ...")
creds_with(request_credential) ==
    IF request_credential # NoCredential THEN [ok |-> TRUE, cred |-> request_credential]
    ELSE IF default_credential # NoCredential THEN [ok |-> TRUE, cred |-> default_credential]
    ELSE [ok |-> FALSE, cred |-> NoCredential]

\* get_request_credential on the result of the authentication (the access
\* token of the request is the auth_info of its user): [ok, cred]; ok = FALSE
\* is the ValueError for an access token that is no AccessToken of this server
get_request_credential(result) ==
    IF result.k = "none" THEN [ok |-> TRUE, cred |-> NoCredential]
    ELSE IF result.auth_info.hydrolix
         THEN [ok |-> TRUE, cred |-> ServiceAccountToken(result.auth_info.token)]
    ELSE [ok |-> FALSE, cred |-> NoCredential]

\* create_hydrolix_client(pool_mgr, get_request_credential()): the credential
\* the client is created with, or the ValueError raised before any client
ClientFor(creds) ==
    IF ~creds.ok
    THEN [outcome |-> "ValueError", error |-> "No credentials available",
          cred |-> NoCredential, clients |-> 0]
    ELSE [outcome |-> "ok", error |-> "", cred |-> creds.cred, clients |-> 1]

create_hydrolix_client(request) ==
    IF ~request.ok
    THEN [outcome |-> "ValueError", error |-> "Found non-hydrolix access token",
          cred |-> NoCredential, clients |-> 0]
    ELSE ClientFor(creds_with(request.cred))

NoAuthentication == [result |-> AuthNone, invoked |-> <<>>]
NoResolution == [outcome |-> "none", error |-> "", cred |-> NoCredential, clients |-> 0]

\* no request is looked at
AuthIdle ==
    /\ environ = [token |-> "", userpass |-> FALSE]
    /\ conn = [param |-> AuthNone, authorization |-> AuthNone]
    /\ now = 1
    /\ backends = get_middleware
    /\ token_verifier = "hydrolix"
    /\ aphase = "idle"
    /\ authed = NoAuthentication
    /\ resolved = NoResolution

(***************************************************************************)
(* The tool surface: one client calling the tools, one call at a time.     *)
(* A call is a step; `last` keeps the call and what it did.  The client    *)
(* starts a session with any call it can make up itself, goes on with the  *)
(* cursor the last response gave it (on any tool, with any arguments), or  *)
(* forgets what it holds.                                                  *)
(***************************************************************************)
MaxPage == 2
MaxTables == 3
DefaultQueryTimeout == 30

Databases == {DbA, DbB}
LikeValues == {PyNone, PyStr(<<>>), PyStr(<<120, 37>>)}
NotLikeValues == {PyNone, PyStr(<<121, 37>>)}

\* "select x", "  select x\n", "select  x", "select x;", "select x limit 2",
\* "with y as (select x) select 2", "DELETE FROM t"
Queries ==
    { <<115, 101, 108, 101, 99, 116, 32, 120>>,
      <<32, 32, 115, 101, 108, 101, 99, 116, 32, 120, 10>>,
      <<115, 101, 108, 101, 99, 116, 32, 32, 120>>,
      <<115, 101, 108, 101, 99, 116, 32, 120, 59>>,
      <<115, 101, 108, 101, 99, 116, 32, 120, 32, 108, 105, 109, 105, 116, 32, 50>>,
      <<119, 105, 116, 104, 32, 121, 32, 97, 115, 32, 40, 115, 101, 108, 101, 99, 116,
        32, 120, 41, 32, 115, 101, 108, 101, 99, 116, 32, 50>>,
      <<68, 69, 76, 69, 84, 69, 32, 70, 82, 79, 77, 32, 116>> }

\* cursors a client can make up: "invalid_cursor_data", "invalid!!!cursor",
\* "NQ==" (the number 5), the encoding of "not json data", of a JSON list, of
\* {"offset": 1}, and of a table_list cursor for database "a" at offset 1
CraftedCursors ==
    { <<105, 110, 118, 97, 108, 105, 100, 95, 99, 117, 114, 115, 111, 114, 95, 100, 97,
        116, 97>>,
      <<105, 110, 118, 97, 108, 105, 100, 33, 33, 33, 99, 117, 114, 115, 111, 114>>,
      <<78, 81, 61, 61>>,
      <<98, 109, 57, 48, 73, 71, 112, 122, 98, 50, 52, 103, 90, 71, 70, 48, 89, 81, 61, 61>>,
      <<87, 122, 70, 100>>,
      encode_cursor(PyDict(s_offset :> PyInt(1))),
      encode_cursor(TableListCursor(1, DbA, PyNone, PyNone)) }

NoResult == Raised("none", <<>>, <<>>, 0)

NoMinter ==
    [tool |-> "none", database |-> <<>>, like |-> PyNone, not_like |-> PyNone,
     query |-> <<>>]

NoCall ==
    [tool |-> "none", database |-> <<>>, like |-> PyNone, not_like |-> PyNone,
     query |-> <<>>, cursor |-> PyNone, paginate |-> FALSE, origin |-> "none",
     minter |-> NoMinter, res |-> NoResult, pages |-> <<>>, whole |-> FALSE]

\* the cursor the last response handed out, if any
HeldCursor ==
    IF last.res.outcome = "ok" /\ ~last.res.resp.legacy /\ last.res.resp.nextCursor.k = "str"
    THEN {last.res.resp.nextCursor}
    ELSE {}

\* the cursors the client may pass now, each with where it came from
Offered ==
    IF last.tool = "none"
    THEN {[cursor |-> PyNone, origin |-> "none"], [cursor |-> PyStr(<<>>), origin |-> "empty"]}
         \cup {[cursor |-> PyStr(c), origin |-> "crafted"] : c \in CraftedCursors}
    ELSE {[cursor |-> c, origin |-> "minted"] : c \in HeldCursor}

\* the page a response carries
PageOf(res) ==
    IF res.outcome # "ok" THEN <<>>
    ELSE IF "tables" \in DOMAIN res.resp THEN res.resp.tables
    ELSE IF "rows" \in DOMAIN res.resp THEN res.resp.rows
    ELSE <<>>

\* the record of a call: the pages of the walk it continues are kept when
\* the call passes the cursor of the last response to the same tool with the
\* same arguments
Call(tool, database, like, not_like, query, offer, paginate, res) ==
    LET continues == offer.origin = "minted" /\ last.tool = tool
                     /\ last.database = database /\ last.like = like
                     /\ last.not_like = not_like /\ last.query = query
    IN [tool |-> tool, database |-> database, like |-> like, not_like |-> not_like,
        query |-> query, cursor |-> offer.cursor, paginate |-> paginate,
        origin |-> offer.origin,
        minter |-> IF offer.origin = "minted"
                   THEN [tool |-> last.tool, database |-> last.database,
                         like |-> last.like, not_like |-> last.not_like,
                         query |-> last.query]
                   ELSE NoMinter,
        res |-> res,
        pages |-> IF continues THEN Append(last.pages, PageOf(res)) ELSE <<PageOf(res)>>,
        whole |-> IF continues THEN last.whole ELSE offer.origin = "none"]

CodecIdle == cphase = "idle" /\ cin = [kind |-> "none"] /\ cout = [kind |-> "none"]
TimeIdle == tphase = "idle" /\ elapsed = 0 /\ tresult = [outcome |-> "none"]

Init ==
    /\ AuthIdle
    /\ MetaIdle
    /\ SessionsIdle
    /\ CodecIdle
    /\ TimeIdle
    /\ query_timeout_sec = DefaultQueryTimeout
    /\ list_tables_page_size \in 1..MaxPage
    /\ query_result_page_size \in 1..MaxPage
    /\ enable_pagination \in BOOLEAN
    /\ ntables \in 0..MaxTables
    /\ engine \in EngineStates
    /\ last = NoCall

CallListTables ==
    /\ \E database \in Databases, like \in LikeValues, not_like \in NotLikeValues,
          offer \in Offered, paginate \in BOOLEAN :
          last' = Call("list_tables", database, like, not_like, <<>>, offer, paginate,
                       list_tables(database, like, not_like, offer.cursor, paginate))
    /\ UNCHANGED <<restVars, codecVars, configVars, ntables, timeVars>>

CallRunSelectQuery ==
    /\ \E query \in Queries, offer \in Offered, paginate \in BOOLEAN :
          last' = Call("run_select_query", <<>>, PyNone, PyNone, query, offer, paginate,
                       run_select_query(query, offer.cursor, paginate))
    /\ UNCHANGED <<restVars, codecVars, configVars, ntables, timeVars>>

CallListDatabases ==
    /\ last.tool = "none"
    /\ last' = Call("list_databases", <<>>, PyNone, PyNone, <<>>,
                    [cursor |-> PyNone, origin |-> "none"], FALSE, list_databases)
    /\ UNCHANGED <<restVars, codecVars, configVars, ntables, timeVars>>

CallAgentRunSelectQuery ==
    /\ last.tool = "none"
    /\ \E query \in Queries :
          last' = Call("agent_run_select_query", <<>>, PyNone, PyNone, query,
                       [cursor |-> PyNone, origin |-> "none"], TRUE,
                       agent_run_select_query(query))
    /\ UNCHANGED <<restVars, codecVars, configVars, ntables, timeVars>>

CallAgentRunQuery ==
    /\ last.tool = "none"
    /\ \E sql \in Queries :
          last' = Call("agent_run_query", <<>>, PyNone, PyNone, sql,
                       [cursor |-> PyNone, origin |-> "none"], FALSE, agent_run_query(sql))
    /\ UNCHANGED <<restVars, codecVars, configVars, ntables, timeVars>>

\* the tables get_table_info is asked about: x1, z1 and one in no catalog
TableNames == {TableName(1), <<122, 49>>, <<110, 111>>}

CallGetTableInfo ==
    /\ last.tool = "none"
    /\ \E database \in Databases, table \in TableNames :
          last' = Call("get_table_info", database, PyNone, PyNone, table,
                       [cursor |-> PyNone, origin |-> "none"], FALSE,
                       get_table_info(database, table))
    /\ UNCHANGED <<restVars, codecVars, configVars, ntables, timeVars>>

Forget ==
    /\ last.tool # "none"
    /\ last' = NoCall
    /\ UNCHANGED <<restVars, codecVars, configVars, ntables, timeVars>>

Next ==
    \/ CallListTables
    \/ CallRunSelectQuery
    \/ CallListDatabases
    \/ CallAgentRunSelectQuery
    \/ CallAgentRunQuery
    \/ CallGetTableInfo
    \/ Forget

Spec == Init /\ [][Next]_vars

(***************************************************************************)
(* The cursor codec on its own: encode_cursor, decode_cursor and           *)
(* validate_cursor_params applied to inputs drawn from bounded sets.       *)
(***************************************************************************)
MaxOffset == 2
MaxRawLen == 3

\* parameter values with characters json.dumps escapes: "café%", a"b\c and
\* a newline, an emoji
CodecLikeValues ==
    LikeValues \cup {PyStr(<<99, 97, 102, 195, 169, 37>>), PyStr(<<97, 34, 98, 92, 99, 10>>),
                     PyStr(<<240, 159, 152, 128>>)}

CodecOffsets == ((0 - 1)..MaxOffset) \cup {10000}

\* valid CursorData: what the tools mint, and the optional fields left out or None
CodecData ==
    {TableListCursor(o, d, l, n) :
        o \in CodecOffsets, d \in Databases, l \in CodecLikeValues, n \in NotLikeValues}
    \cup {QueryResultCursor(o, hash_query(q)) : o \in CodecOffsets, q \in Queries}
    \cup {PyDict((s_type :> PyStr(s_table_list)) @@ (s_offset :> PyInt(o))) :
             o \in CodecOffsets}
    \cup {PyDict((s_type :> PyStr(s_query_result)) @@ (s_offset :> PyInt(o))
                 @@ (s_params :> PyNone) @@ (s_query_hash :> PyNone)) : o \in CodecOffsets}

\* a cursor text with a character outside the alphabet put into it
WithBang(cursor) == SubSeq(cursor, 1, 5) \o <<33>> \o SubSeq(cursor, 6, Len(cursor))

\* the characters N Q = ! e, of which the short raw texts are made
RawAlphabet == {78, 81, 61, 33, 101}

\* raw cursor texts: the made-up ones, "", the encodings of a JSON string, of
\* null and of bytes that are no UTF-8, a cursor in the standard alphabet
\* ({"a": "~~~?"}), cursors with a character put in or the padding taken
\* off, and every short text over RawAlphabet
CodecCursors ==
    CraftedCursors
    \cup { <<73, 109, 70, 105, 89, 121, 73, 61>>,
           <<98, 110, 86, 115, 98, 65, 61, 61>>,
           <<95, 95, 52, 61>>,
           <<101, 121, 74, 104, 73, 106, 111, 103, 73, 110, 53, 43, 102, 106, 56, 105,
             102, 81, 61, 61>> }
    \cup {WithBang(encode_cursor(TableListCursor(o, DbA, PyNone, PyNone))) : o \in 0..MaxOffset}
    \cup {encode_cursor_unpadded(TableListCursor(o, DbA, PyNone, PyNone)) : o \in 0..MaxOffset}
    \cup UNION {[1..n -> RawAlphabet] : n \in 0..MaxRawLen}

\* the expected_params dicts validate_cursor_params is called with
ExpectedParams ==
    { << <<s_database, PyStr(d)>>, <<s_like, l>>, <<s_not_like, n>> >> :
          d \in Databases, l \in LikeValues, n \in NotLikeValues }
    \cup { <<>>, << <<s_like, PyNone>> >>, << <<s_like, PyStr(<<120, 37>>)>> >> }

ToolsIdle ==
    /\ list_tables_page_size = 1
    /\ query_result_page_size = 1
    /\ enable_pagination = TRUE
    /\ ntables = 0
    /\ engine = "up"
    /\ last = NoCall

InitCodec ==
    /\ AuthIdle
    /\ MetaIdle
    /\ SessionsIdle
    /\ cphase = "start"
    /\ cin \in {[kind |-> "data", data |-> d] : d \in CodecData}
               \cup {[kind |-> "cursor", cursor |-> c] : c \in CodecCursors}
    /\ cout = [kind |-> "none"]
    /\ ToolsIdle
    /\ TimeIdle
    /\ query_timeout_sec = DefaultQueryTimeout

EncodeCursor ==
    /\ cphase = "start"
    /\ cin.kind = "data"
    /\ cphase' = "encoded"
    /\ cout' = [cursor |-> encode_cursor(cin.data)]
    /\ UNCHANGED <<restVars, cin, configVars, toolVars, timeVars>>

DecodeCursor ==
    /\ \/ cphase = "encoded" /\ cout' = [cursor |-> cout.cursor, dec |-> decode_cursor(cout.cursor)]
       \/ /\ cphase = "start"
          /\ cin.kind = "cursor"
          /\ cout' = [cursor |-> cin.cursor, dec |-> decode_cursor(cin.cursor)]
    /\ cphase' = "decoded"
    /\ UNCHANGED <<restVars, cin, configVars, toolVars, timeVars>>

ValidateCursorParams ==
    /\ \E expected \in ExpectedParams :
          \/ /\ cphase = "decoded"
             /\ cout.dec.ok
             /\ cout' = [target |-> cout.dec.v, expected |-> expected,
                         val |-> validate_cursor_params(cout.dec.v, expected)]
          \/ /\ cphase = "start"
             /\ cin.kind = "data"
             /\ cout' = [target |-> cin.data, expected |-> expected,
                         val |-> validate_cursor_params(cin.data, expected)]
    /\ cphase' = "validated"
    /\ UNCHANGED <<restVars, cin, configVars, toolVars, timeVars>>

NextCodec == EncodeCursor \/ DecodeCursor \/ ValidateCursorParams

SpecCodec == InitCodec /\ [][NextCodec]_vars

(***************************************************************************)
(* One execute_query call in time.  The call creates its client, sends the *)
(* statement with hdx_query_max_execution_time = query_timeout_sec among   *)
(* its settings and awaits client.query: it ends when the engine answers,  *)
(* when the engine or the transport fails, or at the latest when the HTTP  *)
(* client gives up (send_receive_timeout, for which MaxWait stands).       *)
(***************************************************************************)
MaxTimeout == 3
MaxWait == 6
MaxRows == 2

InitTimeout ==
    /\ AuthIdle
    /\ MetaIdle
    /\ SessionsIdle
    /\ CodecIdle
    /\ ToolsIdle
    /\ query_timeout_sec \in 1..MaxTimeout
    /\ TimeIdle

SendStatement ==
    /\ tphase = "idle"
    /\ tphase' = "waiting"
    /\ elapsed' = 0
    /\ UNCHANGED <<restVars, codecVars, configVars, toolVars, query_timeout_sec, tresult>>

Tick ==
    /\ tphase = "waiting"
    /\ elapsed < MaxWait
    /\ elapsed' = elapsed + 1
    /\ UNCHANGED <<restVars, codecVars, configVars, toolVars, query_timeout_sec, tphase, tresult>>

EngineAnswers ==
    /\ tphase = "waiting"
    /\ \E n \in 0..MaxRows : tresult' = [outcome |-> "ok", rows |-> n]
    /\ tphase' = "done"
    /\ UNCHANGED <<restVars, codecVars, configVars, toolVars, query_timeout_sec, elapsed>>

EngineFails ==
    /\ tphase = "waiting"
    /\ tresult' = [outcome |-> "ToolError", error |-> "Query execution failed", rows |-> 0]
    /\ tphase' = "done"
    /\ UNCHANGED <<restVars, codecVars, configVars, toolVars, query_timeout_sec, elapsed>>

NextTimeout == SendStatement \/ Tick \/ EngineAnswers \/ EngineFails

SpecTimeout == InitTimeout /\ [][NextTimeout]_vars

(***************************************************************************)
(* One request through the authentication chain and the resolution of its  *)
(* credential.                                                             *)
(***************************************************************************)
MaxNow == 2

\* what a verifier can report as the expiry of a token
Expiries == {PyNone} \cup {PyInt(e) : e \in 0..(MaxNow + 1)}

TokensNamed(name) == {[k |-> "token", name |-> name, expires_at |-> e] : e \in Expiries}
UnknownToken == [k |-> "token", name |-> "X", expires_at |-> PyNone]

\* the requests: a token "A" or "X" as query parameter or none, and a header
\* "Authorization: Bearer B", "Bearer X", "Basic ..." or none
Conns ==
    [param : {AuthNone} \cup TokensNamed("A") \cup {UnknownToken},
     authorization :
         {AuthNone}
         \cup {[k |-> "header", scheme |-> "bearer", token |-> t] :
                  t \in TokensNamed("B") \cup {UnknownToken}}
         \cup {[k |-> "header", scheme |-> "basic", token |-> UnknownToken]}]

\* the chains: the server's, and others of the same two backends
BackendLists ==
    {get_middleware, <<"param", "bearer">>, <<"param">>, <<>>,
     <<"bearer", "param", "bearer">>}

InitAuth ==
    /\ environ \in [token : {"", "T"}, userpass : BOOLEAN]
    /\ conn \in Conns
    /\ now \in 1..MaxNow
    /\ backends \in BackendLists
    /\ token_verifier \in {"hydrolix", "generic"}
    /\ aphase = "start"
    /\ authed = NoAuthentication
    /\ resolved = NoResolution
    /\ MetaIdle
    /\ SessionsIdle
    /\ CodecIdle
    /\ ToolsIdle
    /\ TimeIdle
    /\ query_timeout_sec = DefaultQueryTimeout

Authenticate ==
    /\ aphase = "start"
    /\ authed' = authenticate(backends)
    /\ aphase' = "authenticated"
    /\ UNCHANGED <<environ, conn, now, backends, token_verifier, resolved>>
    /\ UNCHANGED <<engine, metaVars, sessionVars, codecVars, configVars, toolVars, timeVars>>

ResolveCredential ==
    /\ aphase = "authenticated"
    /\ resolved' = create_hydrolix_client(get_request_credential(authed.result))
    /\ aphase' = "resolved"
    /\ UNCHANGED <<environ, conn, now, backends, token_verifier, authed>>
    /\ UNCHANGED <<engine, metaVars, sessionVars, codecVars, configVars, toolVars, timeVars>>

NextAuth == Authenticate \/ ResolveCredential

SpecAuth == InitAuth /\ [][NextAuth]_vars

(***************************************************************************)
(* SpecColumns: the summary-table functions applied to bounded columns.    *)
(* A column, or the column list of a table as DESCRIBE TABLE returns it,   *)
(* is enriched; an enriched or a given column list is classified.          *)
(***************************************************************************)
MaxColumns == 3

\* "String"
t_String == <<83, 116, 114, 105, 110, 103>>
\* "AggregateFunction(count, String)"
t_count == <<65, 103, 103, 114, 101, 103, 97, 116, 101, 70, 117, 110, 99, 116, 105, 111, 110, 40, 99, 111, 117, 110, 116, 44, 32, 83, 116, 114, 105, 110, 103, 41>>
\* "SimpleAggregateFunction(sum, Int64)"
t_simple_sum == <<83, 105, 109, 112, 108, 101, 65, 103, 103, 114, 101, 103, 97, 116, 101, 70, 117, 110, 99, 116, 105, 111, 110, 40, 115, 117, 109, 44, 32, 73, 110, 116, 54, 52, 41>>
\* "AggregateFunction(sumIf, Float64)"
t_sumIf == <<65, 103, 103, 114, 101, 103, 97, 116, 101, 70, 117, 110, 99, 116, 105, 111, 110, 40, 115, 117, 109, 73, 102, 44, 32, 70, 108, 111, 97, 116, 54, 52, 41>>
\* "AggregateFunction(quantile(0.5), DateTime)"
t_quantile == <<65, 103, 103, 114, 101, 103, 97, 116, 101, 70, 117, 110, 99, 116, 105, 111, 110, 40, 113, 117, 97, 110, 116, 105, 108, 101, 40, 48, 46, 53, 41, 44, 32, 68, 97, 116, 101, 84, 105, 109, 101, 41>>
\* "AggregateFunction(quantile(0.5, 0.9), Float64)"
t_quantiles == <<65, 103, 103, 114, 101, 103, 97, 116, 101, 70, 117, 110, 99, 116, 105, 111, 110, 40, 113, 117, 97, 110, 116, 105, 108, 101, 40, 48, 46, 53, 44, 32, 48, 46, 57, 41, 44, 32, 70, 108, 111, 97, 116, 54, 52, 41>>
\* "AggregateFunction(count(), UInt64)"
t_count_empty == <<65, 103, 103, 114, 101, 103, 97, 116, 101, 70, 117, 110, 99, 116, 105, 111, 110, 40, 99, 111, 117, 110, 116, 40, 41, 44, 32, 85, 73, 110, 116, 54, 52, 41>>

ColumnTypes ==
    {<<>>, t_String, t_count, t_simple_sum, t_sumIf, t_quantile, t_quantiles,
     t_count_empty}

\* "", "ALIAS", "DEFAULT" or None
DefaultKinds == {PyStr(<<>>), PyStr(s_ALIAS), PyStr(<<68, 69, 70, 65, 85, 76, 84>>), PyNone}

\* None, "", "countMerge(cnt)" or "a + b"
DefaultExpressions ==
    {PyNone, PyStr(<<>>), PyStr(<<99, 111, 117, 110, 116, 77, 101, 114, 103, 101, 40, 99, 110, 116, 41>>), PyStr(<<97, 32, 43, 32, 98>>)}

\* a Column as its constructor leaves it: no category, no functions
FreshColumn(name, column_type, default_kind, default_expression) ==
    [name |-> name, column_type |-> column_type, default_kind |-> default_kind,
     default_expression |-> default_expression, column_category |-> PyNone,
     base_function |-> PyNone, merge_function |-> PyNone]

\* a Column that carries the enrichment of a sum column from before
StaleColumn(name, column_type, default_kind, default_expression) ==
    [name |-> name, column_type |-> column_type, default_kind |-> default_kind,
     default_expression |-> default_expression,
     column_category |-> PyStr(s_aggregate),
     base_function |-> PyStr(<<115, 117, 109>>), merge_function |-> PyStr(<<115, 117, 109, 77, 101, 114, 103, 101>>)]

\* the column names c1, c2, ...
ColumnName(i) == <<99, 48 + i>>

Columns ==
    {FreshColumn(ColumnName(1), t, k, e) :
         t \in ColumnTypes, k \in DefaultKinds, e \in DefaultExpressions}
    \cup {StaleColumn(ColumnName(1), t, k, e) :
         t \in ColumnTypes, k \in DefaultKinds, e \in DefaultExpressions}

\* the columns a column list is made of: an aggregate, an alias of a merged
\* aggregate, a dimension, and a dimension enriched as an aggregate before
ColumnShapes == {"aggregate", "alias", "dimension", "stale"}

ColumnOfShape(shape, i) ==
    CASE shape = "aggregate" ->
           FreshColumn(ColumnName(i), t_quantile, PyStr(<<>>), PyStr(<<>>))
      [] shape = "alias" ->
           FreshColumn(ColumnName(i), t_String, PyStr(s_ALIAS), PyStr(<<99, 111, 117, 110, 116, 77, 101, 114, 103, 101, 40, 99, 110, 116, 41>>))
      [] shape = "dimension" ->
           FreshColumn(ColumnName(i), t_String, PyStr(<<>>), PyStr(<<>>))
      [] OTHER ->
           StaleColumn(ColumnName(i), t_String, PyStr(<<>>), PyStr(<<>>))

ColumnLists ==
    UNION {{[i \in 1..n |-> ColumnOfShape(shapes[i], i)] :
                shapes \in [1..n -> ColumnShapes]} : n \in 0..MaxColumns}

InitColumns ==
    /\ mphase = "start"
    /\ min \in {[kind |-> "column", column |-> c] : c \in Columns}
           \cup {[kind |-> "columns", columns |-> cs] : cs \in ColumnLists}
    /\ mout = [kind |-> "none"]
    /\ engine = "up"
    /\ AuthIdle
    /\ SessionsIdle
    /\ CodecIdle
    /\ ToolsIdle
    /\ TimeIdle
    /\ query_timeout_sec = DefaultQueryTimeout

\* enrich_column_metadata(column)
EnrichColumn ==
    /\ mphase = "start"
    /\ min.kind = "column"
    /\ mphase' = "enriched"
    /\ mout' = [kind |-> "column", column |-> enrich_column_metadata(min.column)]
    /\ UNCHANGED <<min, engine, authVars, sessionVars, codecVars, configVars, toolVars, timeVars>>

\* _populate_table_metadata: [enrich_column_metadata(col) for col in columns]
EnrichColumns ==
    /\ mphase = "start"
    /\ min.kind = "columns"
    /\ mphase' = "enriched"
    /\ mout' = [kind |-> "columns",
                columns |-> [i \in 1..Len(min.columns) |->
                                 enrich_column_metadata(min.columns[i])]]
    /\ UNCHANGED <<min, engine, authVars, sessionVars, codecVars, configVars, toolVars, timeVars>>

\* the columns classify_table_columns is given: the enriched ones, or the
\* ones of the start
ClassifyInput == IF mphase = "start" THEN min.columns ELSE mout.columns

\* classify_table_columns(columns)
ClassifyColumns ==
    /\ mphase \in {"start", "enriched"}
    /\ min.kind = "columns"
    /\ mphase' = "classified"
    /\ mout' = [kind |-> "classified", columns |-> ClassifyInput,
                classification |-> classify_table_columns(ClassifyInput)]
    /\ UNCHANGED <<min, engine, authVars, sessionVars, codecVars, configVars, toolVars, timeVars>>

NextColumns == EnrichColumn \/ EnrichColumns \/ ClassifyColumns

SpecColumns == InitColumns /\ [][NextColumns]_vars

(***************************************************************************)
(* SpecIdentifiers: the operations that take a database and a table name,  *)
(* each called once with names a caller can make up.                       *)
(***************************************************************************)
\* "a", "a;x" and "_"
IdentDatabases == {DbA, <<97, 59, 120>>, <<95>>}

\* x1, "no" (in no catalog) and "x1`"
IdentTables == {TableName(1), <<110, 111>>, <<120, 49, 96>>}

\* limit arguments: below, inside and above the range 1..20
SampleLimits == {0, 5, 25}

NoOffer == [cursor |-> PyNone, origin |-> "none"]

CallGetTableInfoNamed ==
    /\ last.tool = "none"
    /\ \E database \in IdentDatabases, table \in IdentTables :
          last' = Call("get_table_info", database, PyNone, PyNone, table, NoOffer, FALSE,
                       get_table_info(database, table))
    /\ UNCHANGED <<restVars, codecVars, configVars, ntables, timeVars>>

CallListTablesNamed ==
    /\ last.tool = "none"
    /\ \E database \in IdentDatabases, paginate \in BOOLEAN :
          last' = Call("list_tables", database, PyNone, PyNone, <<>>, NoOffer, paginate,
                       list_tables(database, PyNone, PyNone, PyNone, paginate))
    /\ UNCHANGED <<restVars, codecVars, configVars, ntables, timeVars>>

CallAgentDescribeTable ==
    /\ last.tool = "none"
    /\ \E database \in IdentDatabases, table \in IdentTables :
          last' = Call("agent_describe_table", database, PyNone, PyNone, table, NoOffer,
                       FALSE, agent_describe_table(database, table))
    /\ UNCHANGED <<restVars, codecVars, configVars, ntables, timeVars>>

CallAgentGetSampleData ==
    /\ last.tool = "none"
    /\ \E database \in IdentDatabases, table \in IdentTables, limit \in SampleLimits :
          last' = Call("agent_get_sample_data", database, PyNone, PyNone, table, NoOffer,
                       FALSE, agent_get_sample_data(database, table, limit))
    /\ UNCHANGED <<restVars, codecVars, configVars, ntables, timeVars>>

CallClickhouseDescribeTable ==
    /\ last.tool = "none"
    /\ \E database \in IdentDatabases, table \in IdentTables :
          last' = Call("clickhouse_describe_table", database, PyNone, PyNone, table,
                       NoOffer, FALSE, clickhouse_describe_table(database, table))
    /\ UNCHANGED <<restVars, codecVars, configVars, ntables, timeVars>>

CallClickhouseGetSampleData ==
    /\ last.tool = "none"
    /\ \E database \in IdentDatabases, table \in IdentTables, limit \in SampleLimits :
          last' = Call("clickhouse_get_sample_data", database, PyNone, PyNone, table,
                       NoOffer, FALSE, clickhouse_get_sample_data(database, table, limit))
    /\ UNCHANGED <<restVars, codecVars, configVars, ntables, timeVars>>

NextIdentifiers ==
    \/ CallGetTableInfoNamed
    \/ CallListTablesNamed
    \/ CallAgentDescribeTable
    \/ CallAgentGetSampleData
    \/ CallClickhouseDescribeTable
    \/ CallClickhouseGetSampleData
    \/ Forget

SpecIdentifiers == Init /\ [][NextIdentifiers]_vars

(***************************************************************************)
(* SpecPaging: list_tables and run_select_query called in any order        *)
(* against an engine that answers, each call with a made-up cursor or the  *)
(* cursor of the response before it.                                       *)
(***************************************************************************)
InitPaging == Init /\ engine = "up"

NextPaging == CallListTables \/ CallRunSelectQuery \/ Forget

SpecPaging == InitPaging /\ [][NextPaging]_vars

(***************************************************************************)
(* SpecHash: hash_query applied to two query texts.                        *)
(***************************************************************************)
\* "select x", with a space, a newline, a tab or a file separator around
\* it, with two spaces or a newline inside, in capitals, with a semicolon,
\* "select y", "selectx", and "" and " "
HashTexts ==
    { <<115, 101, 108, 101, 99, 116, 32, 120>>, <<32, 115, 101, 108, 101, 99, 116, 32, 120>>, <<115, 101, 108, 101, 99, 116, 32, 120, 10>>, <<9, 115, 101, 108, 101, 99, 116, 32, 120, 32, 32>>, <<28>> \o <<115, 101, 108, 101, 99, 116, 32, 120>>, <<115, 101, 108, 101, 99, 116, 32, 32, 120>>, <<115, 101, 108, 101, 99, 116, 10, 120>>, <<83, 69, 76, 69, 67, 84, 32, 120>>, <<115, 101, 108, 101, 99, 116, 32, 120, 59>>, <<115, 101, 108, 101, 99, 116, 32, 121>>, <<115, 101, 108, 101, 99, 116, 120>>, <<>>, <<32>> }

InitHash ==
    /\ AuthIdle
    /\ MetaIdle
    /\ SessionsIdle
    /\ cphase = "start"
    /\ cin \in {[kind |-> "queries", q1 |-> a, q2 |-> b] : a, b \in HashTexts}
    /\ cout = [kind |-> "none"]
    /\ ToolsIdle
    /\ TimeIdle
    /\ query_timeout_sec = DefaultQueryTimeout

\* hash_query(q1), hash_query(q2)
HashQueries ==
    /\ cphase = "start"
    /\ cin.kind = "queries"
    /\ cphase' = "hashed"
    /\ cout' = [kind |-> "digests", h1 |-> hash_query(cin.q1), h2 |-> hash_query(cin.q2)]
    /\ UNCHANGED <<restVars, cin, configVars, toolVars, timeVars>>

NextHash == HashQueries

SpecHash == InitHash /\ [][NextHash]_vars

(***************************************************************************)
(* SpecForged: list_tables and run_select_query called once with a cursor  *)
(* a client has put together itself, right for the call but for its        *)
(* offset.                                                                 *)
(***************************************************************************)
\* offsets a client can write into a cursor: -1, "1", "a", true, 1.5, null,
\* and 1
ForgedOffsets ==
    {PyInt(-1), PyStr(<<49>>), PyStr(<<97>>), PyBool(TRUE), PyFloat(<<49, 46, 53>>),
     PyNone, PyInt(1)}

\* the cursors of list_tables(database "a") with such an offset, or none
ForgedListCursors ==
    {encode_cursor(PyDict((s_type :> PyStr(s_table_list)) @@ (s_offset :> o)
                          @@ (s_params :> PyDict((s_database :> PyStr(DbA))
                                                 @@ (s_like :> PyNone)
                                                 @@ (s_not_like :> PyNone))))) :
         o \in ForgedOffsets}
    \cup {encode_cursor(PyDict((s_type :> PyStr(s_table_list))
                               @@ (s_params :> PyDict((s_database :> PyStr(DbA))
                                                      @@ (s_like :> PyNone)
                                                      @@ (s_not_like :> PyNone)))))}

\* "select x"
ForgedQuery == <<115, 101, 108, 101, 99, 116, 32, 120>>

\* the cursors of run_select_query("select x") with such an offset, or none
ForgedQueryCursors ==
    {encode_cursor(PyDict((s_type :> PyStr(s_query_result)) @@ (s_offset :> o)
                          @@ (s_query_hash :> PyStr(hash_query(ForgedQuery))))) :
         o \in ForgedOffsets}
    \cup {encode_cursor(PyDict((s_type :> PyStr(s_query_result))
                               @@ (s_query_hash :> PyStr(hash_query(ForgedQuery)))))}

CallListTablesForged ==
    /\ last.tool = "none"
    /\ \E cursor \in ForgedListCursors, paginate \in BOOLEAN :
          last' = Call("list_tables", DbA, PyNone, PyNone, <<>>,
                       [cursor |-> PyStr(cursor), origin |-> "crafted"], paginate,
                       list_tables(DbA, PyNone, PyNone, PyStr(cursor), paginate))
    /\ UNCHANGED <<restVars, codecVars, configVars, ntables, timeVars>>

CallRunSelectQueryForged ==
    /\ last.tool = "none"
    /\ \E cursor \in ForgedQueryCursors, paginate \in BOOLEAN :
          last' = Call("run_select_query", <<>>, PyNone, PyNone, ForgedQuery,
                       [cursor |-> PyStr(cursor), origin |-> "crafted"], paginate,
                       run_select_query(ForgedQuery, PyStr(cursor), paginate))
    /\ UNCHANGED <<restVars, codecVars, configVars, ntables, timeVars>>

NextForged == CallListTablesForged \/ CallRunSelectQueryForged \/ Forget

SpecForged == Init /\ [][NextForged]_vars

(***************************************************************************)
(* SpecConcurrent: requests served at the same time.  Each request is a    *)
(* task of the event loop with the credential of its own access token; a   *)
(* tool of it runs execute_query or execute_cmd one or more times, and     *)
(* every `await` of an execution is a point where another request runs.    *)
(***************************************************************************)
MaxRequests == 2
MaxExecs == 2
MaxPool == 1

\* the credential get_request_credential() finds on a request
RequestCredentials == {NoCredential, ServiceAccountToken("A"), ServiceAccountToken("B")}

\* no client held
NoClient == <<0, 0>>

NewRequest(cred) ==
    [cred |-> cred, pc |-> "ready", client |-> NoClient, execs |-> 0, outcome |-> "none"]

\* a client, named by the request that created it and its number among the
\* clients of that request
NewClient(cs, r, cred) ==
    [id |-> <<r, Cardinality({c \in cs : c.owner = r}) + 1>>, owner |-> r, cred |-> cred,
     open |-> TRUE]

\* the client of a name
Handle(id) == CHOOSE c \in handles : c.id = id

\* a client taken for an execution when one that is still open may serve
\* again: [clients, client]
AcquireClientReused(cs, r, cred) ==
    IF \E c \in cs : c.open
    THEN [clients |-> cs, client |-> (CHOOSE c \in cs : c.open).id]
    ELSE [clients |-> cs \cup {NewClient(cs, r, cred)}, client |-> NewClient(cs, r, cred).id]

\* clickhouse_connect.get_async_client(pool_mgr=pool_mgr, **get_client_config(
\* request_credential)): a client of its own for the execution, closing over
\* the credential: [clients, client]
AcquireClient(cs, r, cred) ==
    [clients |-> cs \cup {NewClient(cs, r, cred)}, client |-> NewClient(cs, r, cred).id]

\* a statement takes a connection of client_shared_pool: a kept one, or a new
\* one when none is kept (pool_kwargs sets maxsize and no "block", so the
\* pool never makes a caller wait)
PoolTake(pool) == [pool EXCEPT !.idle = IF @ > 0 THEN @ - 1 ELSE 0]

\* the connection comes back: kept while fewer than maxsize are, else dropped
PoolGive(pool) == [pool EXCEPT !.idle = IF @ < pool.maxsize THEN @ + 1 ELSE @]

\* the statements of the requests that are with the engine now
InFlight == Cardinality({r \in DOMAIN reqs : reqs[r].pc = "inflight"})

ConcurrentIdle ==
    /\ conn = [param |-> AuthNone, authorization |-> AuthNone]
    /\ now = 1
    /\ backends = get_middleware
    /\ token_verifier = "hydrolix"
    /\ aphase = "idle"
    /\ authed = NoAuthentication
    /\ resolved = NoResolution
    /\ MetaIdle
    /\ CodecIdle
    /\ ToolsIdle
    /\ TimeIdle
    /\ query_timeout_sec = DefaultQueryTimeout
    /\ engine = "up"
    /\ walks = <<>>

InitConcurrent ==
    /\ ConcurrentIdle
    /\ environ \in [token : {"", "T"}, userpass : {FALSE}]
    /\ client_shared_pool \in {[maxsize |-> n, idle |-> 0] : n \in 1..MaxPool}
    /\ reqs \in [1..MaxRequests -> {NewRequest(c) : c \in RequestCredentials}]
    /\ handles = {}
    /\ wire = {}

ConcurrentRest ==
    UNCHANGED <<engine, authVars, metaVars, walks, codecVars, configVars, toolVars, timeVars>>

\* async with await create_hydrolix_client(client_shared_pool,
\* get_request_credential()): creds_with raises, or the client is created
CreateClient(r) ==
    /\ reqs[r].pc = "ready"
    /\ LET made == create_hydrolix_client([ok |-> TRUE, cred |-> reqs[r].cred])
           acquired == AcquireClient(handles, r, made.cred)
       IN IF made.outcome # "ok"
          THEN /\ reqs' = [reqs EXCEPT ![r].pc = "done", ![r].outcome = "ToolError"]
               /\ UNCHANGED handles
          ELSE /\ reqs' = [reqs EXCEPT ![r].pc = "created", ![r].client = acquired.client]
               /\ handles' = acquired.clients
    /\ UNCHANGED <<client_shared_pool, wire>>
    /\ ConcurrentRest

\* await client.query(query, settings=...) / client.command(query): the
\* statement leaves with the credential of the client the request holds
SendQuery(r) ==
    /\ reqs[r].pc = "created"
    /\ wire' = wire \cup
          {[req |-> r, exec |-> reqs[r].execs, client |-> reqs[r].client,
            cred |-> Handle(reqs[r].client).cred,
            open |-> Handle(reqs[r].client).open,
            after |-> reqs[Handle(reqs[r].client).owner].pc = "done"]}
    /\ reqs' = [reqs EXCEPT ![r].pc = "inflight"]
    /\ client_shared_pool' = PoolTake(client_shared_pool)
    /\ UNCHANGED handles
    /\ ConcurrentRest

\* the engine answers or fails; the connection goes back to the pool
Receive(r) ==
    /\ reqs[r].pc = "inflight"
    /\ \E outcome \in {"ok", "ToolError"} :
          reqs' = [reqs EXCEPT ![r].pc = "answered", ![r].outcome = outcome]
    /\ client_shared_pool' = PoolGive(client_shared_pool)
    /\ UNCHANGED <<handles, wire>>
    /\ ConcurrentRest

\* the end of the async with block closes the client; a tool that succeeded
\* may run another execution (get_table_info, list_tables), else the request
\* is complete
CloseClient(r) ==
    /\ reqs[r].pc = "answered"
    /\ handles' = {IF c.id = reqs[r].client THEN [c EXCEPT !.open = FALSE] ELSE c :
                       c \in handles}
    /\ \E again \in BOOLEAN :
          reqs' = [reqs EXCEPT
                      ![r].pc = IF /\ again
                                   /\ reqs[r].outcome = "ok"
                                   /\ reqs[r].execs + 1 < MaxExecs
                                THEN "ready" ELSE "done",
                      ![r].execs = @ + 1,
                      ![r].client = NoClient]
    /\ UNCHANGED <<client_shared_pool, wire>>
    /\ ConcurrentRest

NextConcurrent ==
    \E r \in 1..MaxRequests : CreateClient(r) \/ SendQuery(r) \/ Receive(r) \/ CloseClient(r)

SpecConcurrent == InitConcurrent /\ [][NextConcurrent]_vars

(***************************************************************************)
(* SpecWalks: paginations followed at the same time.  Each walker calls    *)
(* its tool with the same arguments and the cursor of its own last page;   *)
(* the calls of the walkers are served in any order.                       *)
(***************************************************************************)
\* the walkers: two paginations
Walkers == {1, 2}

\* None and "x%"
WalkLikes == {PyNone, PyStr(<<120, 37>>)}

\* "select x" and "select x limit 2"
WalkQueries == {<<115, 101, 108, 101, 99, 116, 32, 120>>, <<115, 101, 108, 101, 99, 116, 32, 120, 32, 108, 105, 109, 105, 116, 32, 50>>}

NewWalk(tool, like, query) ==
    [tool |-> tool, like |-> like, query |-> query, cursor |-> PyNone, pages |-> <<>>,
     at |-> <<>>, got |-> 0, open |-> TRUE, failed |-> FALSE]

NewWalks ==
    {NewWalk("list_tables", like, <<>>) : like \in WalkLikes}
    \cup {NewWalk("run_select_query", PyNone, query) : query \in WalkQueries}

\* the call of a walker: list_tables(database "a", like, None, cursor, True)
\* or run_select_query(query, cursor, True)
WalkCall(walk, cursor) ==
    IF walk.tool = "list_tables" THEN list_tables(DbA, walk.like, PyNone, cursor, TRUE)
    ELSE run_select_query(walk.query, cursor, TRUE)

\* the nextCursor of a response, None when it has none
NextCursorOf(res) ==
    IF res.outcome = "ok" /\ ~res.resp.legacy THEN res.resp.nextCursor ELSE PyNone

\* the walk after the response to its call, which was the turn-th call served
Walked(walk, res, turn) ==
    [walk EXCEPT !.cursor = NextCursorOf(res),
                 !.pages = Append(@, PageOf(res)),
                 !.at = Append(@, turn),
                 !.got = @ + Len(PageOf(res)),
                 !.open = NextCursorOf(res) # PyNone,
                 !.failed = res.outcome # "ok"]

RECURSIVE Turns(_)
Turns(ws) == IF ws = <<>> THEN 0 ELSE Len(Head(ws).pages) + Turns(Tail(ws))

InitWalks ==
    /\ AuthIdle
    /\ MetaIdle
    /\ CodecIdle
    /\ TimeIdle
    /\ query_timeout_sec = DefaultQueryTimeout
    /\ list_tables_page_size \in 1..MaxPage
    /\ query_result_page_size \in 1..MaxPage
    /\ enable_pagination \in BOOLEAN
    /\ ntables \in 0..MaxTables
    /\ engine \in EngineStates
    /\ last = NoCall
    /\ client_shared_pool = [maxsize |-> 0, idle |-> 0]
    /\ reqs = <<>>
    /\ handles = {}
    /\ wire = {}
    /\ walks \in [Walkers -> NewWalks]

\* a walker's next call is served
WalkStep(w) ==
    /\ walks[w].open
    /\ walks' = [walks EXCEPT
                    ![w] = Walked(walks[w], WalkCall(walks[w], walks[w].cursor),
                                  Turns(walks) + 1)]
    /\ UNCHANGED <<engine, authVars, metaVars, client_shared_pool, reqs, handles, wire>>
    /\ UNCHANGED <<codecVars, configVars, toolVars, timeVars>>

NextWalks == \E w \in Walkers : WalkStep(w)

SpecWalks == InitWalks /\ [][NextWalks]_vars

(***************************************************************************)
(* Properties of the tools (Spec)                                          *)
(***************************************************************************)
RECURSIVE Flatten(_)
Flatten(pages) == IF pages = <<>> THEN <<>> ELSE Head(pages) \o Flatten(Tail(pages))

\* the filter a clause is built from: `if like:` leaves out None and ""
Clause(x) == IF Truthy(x) THEN x ELSE PyNone

\* the last call ended a list_tables walk from the first page on, every call
\* of it paginated and passing the cursor of the page before
C1_Walk ==
    /\ last.tool = "list_tables"
    /\ last.whole
    /\ last.res.outcome = "ok"
    /\ ~last.res.resp.legacy

C1_Listing == MatchingTables(last.database, Clause(last.like), Clause(last.not_like))

\* C1: walking list_tables from the first page by passing each nextCursor
\* back: every page before the last holds page_size tables, the pages put
\* together are the listing so far with each table once and in order,
\* nextCursor is null exactly on the page that completes the listing, and
\* the walk then has ceil(N / page_size) pages (one empty page when N = 0).
C1_PaginationComplete ==
    C1_Walk =>
        LET all == C1_Listing
            got == Flatten(last.pages)
            n == Len(last.pages)
            P == list_tables_page_size
        IN /\ \A i \in 1..(n - 1) : Len(last.pages[i]) = P
           /\ Len(last.pages[n]) <= P
           /\ Len(got) <= Len(all)
           /\ got = SubSeq(all, 1, Len(got))
           /\ (last.res.resp.nextCursor = PyNone) <=> (got = all)
           /\ last.res.resp.nextCursor = PyNone =>
                  n = (IF Len(all) = 0 THEN 1 ELSE (Len(all) + P - 1) \div P)

C1_Witness ==
    /\ C1_Walk
    /\ Len(last.pages) >= 2
    /\ last.res.resp.nextCursor = PyNone
    /\ Len(last.pages[Len(last.pages)]) < list_tables_page_size
    /\ Flatten(last.pages) = C1_Listing

\* a cursor minted by one tool is passed to a call of the same tool
MintedFor(tool) == last.tool = tool /\ last.origin = "minted" /\ last.minter.tool = tool

\* the call failed on its cursor: ToolError("Invalid cursor: ..."), no client
\* created, no statement sent, nothing returned
CursorRejected ==
    /\ last.res.outcome = "ToolError"
    /\ last.res.error = <<"Invalid cursor">>
    /\ last.res.clients = 0
    /\ last.res.sent = <<>>

\* C2: a cursor minted by list_tables is rejected by list_tables exactly when
\* one of database, like, not_like differs from the call that minted it (a
\* value against None included), and accepted when all three are the same.
C2_FilterBinding ==
    MintedFor("list_tables") =>
        (CursorRejected <=>
            <<last.database, last.like, last.not_like>>
                # <<last.minter.database, last.minter.like, last.minter.not_like>>)

C2_Witness ==
    /\ MintedFor("list_tables")
    /\ CursorRejected
    /\ last.database = last.minter.database
    /\ last.not_like = last.minter.not_like
    /\ last.like = PyNone
    /\ last.minter.like.k = "str"

C2_WitnessAccepted ==
    /\ MintedFor("list_tables")
    /\ last.res.outcome = "ok"
    /\ last.like.k = "str"
    /\ Len(last.pages) >= 2

\* C3: a cursor minted by run_select_query for q is accepted with q' exactly
\* when strip(q) = strip(q'); a mismatch fails the call with no rows; and the
\* cursor a response carries holds the hash of the stripped text of the
\* statement as the caller gave it, not of the rewritten one.
C3_QueryBinding ==
    /\ MintedFor("run_select_query") =>
           /\ CursorRejected <=> Strip(last.query) # Strip(last.minter.query)
           /\ CursorRejected => PageOf(last.res) = <<>>
    /\ (/\ last.tool = "run_select_query"
        /\ last.res.outcome = "ok"
        /\ ~last.res.resp.legacy
        /\ last.res.resp.nextCursor # PyNone) =>
           DictGet(decode_cursor(last.res.resp.nextCursor.v).v, s_query_hash, PyNone)
               = PyStr(sha256_hexdigest(Strip(last.query)))

C3_Witness ==
    /\ MintedFor("run_select_query")
    /\ last.res.outcome = "ok"
    /\ last.query # last.minter.query
    /\ Strip(last.query) = Strip(last.minter.query)
    /\ Len(PageOf(last.res)) >= 1

C3_WitnessRejected ==
    /\ MintedFor("run_select_query")
    /\ CursorRejected
    /\ Squeeze(last.query) = Squeeze(last.minter.query)

\* the cursor of the last call is one decode_cursor fails on, or one that
\* fails validation against the arguments of the call
CursorBad ==
    /\ last.cursor.k = "str"
    /\ \/ ~decode_cursor(last.cursor.v).ok
       \/ decode_cursor(last.cursor.v).v.k # "dict"
       \/ /\ last.tool = "list_tables"
          /\ validate_cursor_params(
                 decode_cursor(last.cursor.v).v,
                 << <<s_database, PyStr(last.database)>>, <<s_like, last.like>>,
                    <<s_not_like, last.not_like>> >>) # "ok"
       \/ /\ last.tool = "run_select_query"
          /\ decode_cursor(last.cursor.v).v.k = "dict"
          /\ PyNe(DictGet(decode_cursor(last.cursor.v).v, s_query_hash, PyNone),
                  PyStr(hash_query(last.query)))

\* C7: a malformed or validation-failing cursor passed to list_tables or
\* run_select_query makes the call fail before any client is created or any
\* statement is sent.
C7_AsStated ==
    (last.tool \in {"list_tables", "run_select_query"} /\ CursorBad) =>
        /\ last.res.outcome \notin {"ok", "none"}
        /\ last.res.clients = 0
        /\ last.res.sent = <<>>

\* the statement of a query tool that does not start with SELECT or WITH
\* once stripped and upper-cased
UnsafeQuery ==
    /\ last.tool \in {"run_select_query", "agent_run_select_query", "agent_run_query"}
    /\ ~StartsWithSelectOrWith(last.query)

\* C8: a statement that does not start with SELECT or WITH is refused with
\* an error, no client is created and no statement is sent.
C8_AsStated ==
    UnsafeQuery =>
        /\ last.res.outcome # "ok" \/ "error" \in DOMAIN last.res.resp
        /\ last.res.clients = 0
        /\ last.res.sent = <<>>

\* the tools whose statements go through execute_query or execute_cmd
GatewayTools == {"list_tables", "run_select_query", "list_databases", "agent_run_select_query"}

\* C10: every statement sent through execute_query or execute_cmd carries
\* the read-only flag and the execution-time, attempts, rows and memory
\* ceilings.
C10_AsStated ==
    last.tool \in GatewayTools =>
        \A i \in DOMAIN last.res.sent :
            /\ DOMAIN QuerySettings \subseteq DOMAIN last.res.sent[i].settings
            /\ last.res.sent[i].settings.readonly = 1

(***************************************************************************)
(* Properties of the codec (SpecCodec)                                     *)
(***************************************************************************)
\* every expected key is in the params map of the cursor with an equal value
ParamsAgree(cursor_data, expected_params) ==
    /\ s_params \in DOMAIN cursor_data.v
    /\ cursor_data.v[s_params].k = "dict"
    /\ \A i \in DOMAIN expected_params :
           /\ expected_params[i][1] \in DOMAIN cursor_data.v[s_params].v
           /\ cursor_data.v[s_params].v[expected_params[i][1]] = expected_params[i][2]

\* C4: validate_cursor_params returns normally exactly when every expected
\* key is present in the cursor's params with an equal value; a key the
\* cursor lacks, or a cursor with no params map, is a mismatch (a ValueError)
\* whatever the expected value, None included.
C4_AsStated ==
    (cphase = "validated" /\ cout.target.k = "dict") =>
        /\ cout.val = "ok" <=> ParamsAgree(cout.target, cout.expected)
        /\ cout.val \in {"ok", "ValueError"}

\* C5: decode_cursor(encode_cursor(c)) = c for every valid cursor data c.
C5_RoundTrip ==
    (cphase = "decoded" /\ cin.kind = "data") => (cout.dec.ok /\ cout.dec.v = cin.data)

C5_Witness ==
    /\ cphase = "decoded"
    /\ cin.kind = "data"
    /\ cout.dec.ok
    /\ cout.dec.v = TableListCursor(1, DbA, PyStr(<<99, 97, 102, 195, 169, 37>>), PyNone)
    /\ \E i \in DOMAIN cout.cursor : cout.cursor[i] = 61

\* a character of the URL-safe base64 alphabet: A-Z a-z 0-9 - _
UrlSafeChar(ch) ==
    \/ ch >= 65 /\ ch <= 90
    \/ ch >= 97 /\ ch <= 122
    \/ ch >= 48 /\ ch <= 57
    \/ ch \in {45, 95}

\* text that is URL-safe base64: groups of four characters of the alphabet,
\* the last of them padded with =
UrlSafeBase64(text) ==
    /\ Len(text) % 4 = 0
    /\ \A i \in DOMAIN text :
           \/ UrlSafeChar(text[i])
           \/ text[i] = 61 /\ i >= Len(text) - 1 /\ (i = Len(text) \/ text[Len(text)] = 61)

\* C6: decode_cursor returns a value only for a text that is the URL-safe
\* base64 encoding of a JSON object; every other text makes it fail.
C6_AsStated ==
    (cphase = "decoded" /\ cin.kind = "cursor" /\ cout.dec.ok) =>
        /\ UrlSafeBase64(cout.cursor)
        /\ cout.dec.v.k = "dict"

(***************************************************************************)
(* Properties of a query in time (SpecTimeout)                             *)
(***************************************************************************)
\* C9: a statement that has run for query_timeout_sec is ended with a
\* query-timeout error: none is awaited, and none ends, later than that,
\* however the engine behaves.
C9_AsStated ==
    tphase \in {"waiting", "done"} => elapsed <= query_timeout_sec

(***************************************************************************)
(* Properties of the tools when the engine fails (Spec)                    *)
(***************************************************************************)
\* the tools of the MCP server
ServerTools == {"list_databases", "list_tables", "get_table_info", "run_select_query"}

\* the engine or the connection failed during the last call: no client could
\* be created, or the last statement sent was answered with an error
EngineFailed ==
    /\ last.tool \in ServerTools
    /\ last.res.clients > 0
    /\ \/ engine = "down"
       \/ /\ last.res.sent # <<>>
          /\ ~EngineRun(last.res.sent[Len(last.res.sent)].stmt).ok

\* the message of that failure
FailureMessage ==
    IF engine = "down" THEN "Connection refused"
    ELSE EngineMessage(last.res.sent[Len(last.res.sent)].stmt)

\* the prefixes the message of the ToolError of a tool puts before the
\* engine's message, outermost first
FailurePrefix(tool) ==
    IF tool = "list_databases" THEN <<"Command execution failed">>
    ELSE IF tool = "run_select_query"
         THEN <<"Unexpected error during query execution", "Query execution failed">>
    ELSE <<"Query execution failed">>

\* C11 as stated: when the engine or the connection fails during a tool
\* call, the call fails with a ToolError that wraps the failure once (one
\* prefix) and carries the engine's message.
C11_AsStated ==
    EngineFailed =>
        /\ last.res.outcome = "ToolError"
        /\ Len(last.res.error) = 2
        /\ last.res.error[2] = FailureMessage

\* C11: when the engine or the connection fails during a tool call, the call
\* fails with a ToolError and with no other exception; its message ends with
\* the engine's message, behind the prefix of execute_query or execute_cmd
\* and, in run_select_query, behind a second prefix of the tool itself.
C11_SingleErrorType ==
    EngineFailed =>
        /\ last.res.outcome = "ToolError"
        /\ last.res.error = FailurePrefix(last.tool) \o <<FailureMessage>>

C11_Witness ==
    /\ EngineFailed
    /\ last.tool = "list_tables"
    /\ engine = "nodescribe"
    /\ Len(last.res.sent) >= 2
    /\ last.res.outcome = "ToolError"

(***************************************************************************)
(* Properties of query-result pagination (Spec)                            *)
(***************************************************************************)
\* the last call ended a run_select_query walk from the first page on, every
\* call of it paginated and passing the cursor of the page before
QueryWalk ==
    /\ last.tool = "run_select_query"
    /\ last.whole
    /\ last.res.outcome = "ok"
    /\ ~last.res.resp.legacy

FullResult ==
    IF last.tool = "list_tables" THEN C1_Listing
    ELSE SelectRows(RStripSemicolons(Strip(last.query))).rows

\* C13: on every page of a walk followed from the first page, pageSize is
\* the number of items of the page and totalRetrieved the number of items of
\* all pages so far, this one included; on the last page totalRetrieved is
\* the size of the full result.
C13_PageCounters ==
    (C1_Walk \/ QueryWalk) =>
        /\ last.res.resp.pageSize = Len(PageOf(last.res))
        /\ last.res.resp.totalRetrieved = Len(Flatten(last.pages))
        /\ last.res.resp.nextCursor = PyNone =>
               last.res.resp.totalRetrieved = Len(FullResult)

C13_Witness ==
    /\ QueryWalk
    /\ Len(last.pages) = 2
    /\ Len(PageOf(last.res)) = 1
    /\ last.res.resp.pageSize = 1
    /\ last.res.resp.totalRetrieved = MaxTables
    /\ last.res.resp.nextCursor = PyNone

(***************************************************************************)
(* Properties of authentication and credential resolution (SpecAuth)       *)
(***************************************************************************)
\* the request was authenticated with a token of this server
RequestCredentialResolved == authed.result.k = "user" /\ authed.result.auth_info.hydrolix

\* C14: the credential of a request is its own when one resolved; else the
\* default: the service-account token of the environment when there is one,
\* the username/password pair only when there is no token; with neither,
\* resolution fails with the no-credential error and no client is created.
C14_CredentialPrecedence ==
    aphase = "resolved" =>
        /\ RequestCredentialResolved =>
               /\ resolved.outcome = "ok"
               /\ resolved.cred = ServiceAccountToken(authed.result.auth_info.token)
        /\ (authed.result.k = "none" /\ environ.token # "") =>
               /\ resolved.outcome = "ok"
               /\ resolved.cred = ServiceAccountToken(environ.token)
        /\ (authed.result.k = "none" /\ environ.token = "" /\ environ.userpass) =>
               /\ resolved.outcome = "ok"
               /\ resolved.cred = UsernamePassword
        /\ (authed.result.k = "none" /\ environ.token = "" /\ ~environ.userpass) =>
               /\ resolved.outcome = "ValueError"
               /\ resolved.error = "No credentials available"
               /\ resolved.clients = 0
        /\ resolved.outcome = "ok" <=> resolved.clients = 1

C14_Witness ==
    /\ aphase = "resolved"
    /\ RequestCredentialResolved
    /\ environ = [token |-> "T", userpass |-> TRUE]
    /\ resolved.cred = ServiceAccountToken("A")

C14_WitnessDefault ==
    /\ aphase = "resolved"
    /\ authed.result.k = "none"
    /\ environ = [token |-> "T", userpass |-> TRUE]
    /\ resolved.cred = ServiceAccountToken("T")

\* C15: in the chain of the server the token of the query parameter is tried
\* before the token of the Bearer header: a request that carries a valid
\* token in each place is authenticated with the one of the query parameter.
C15_AsStated ==
    (/\ aphase # "start"
     /\ backends = get_middleware
     /\ GetParamAuthenticate(conn) # AuthNone
     /\ BearerAuthenticate(conn) # AuthNone) =>
        /\ authed.result = GetParamAuthenticate(conn)
        /\ authed.result.auth_info.token = conn.param.name

\* C16: ChainedAuthBackend.authenticate invokes its backends in list order,
\* returns the result of the first that does not return None, invokes none
\* after that one, and returns None exactly when every backend returned None.
C16_FirstMatchWins ==
    aphase # "start" =>
        LET n == Len(authed.invoked) IN
        /\ n <= Len(backends)
        /\ authed.invoked = [i \in 1..n |-> i]
        /\ \A i \in 1..(n - 1) : BackendAuthenticate(backends[i], conn) = AuthNone
        /\ authed.result # AuthNone =>
               (n >= 1 /\ authed.result = BackendAuthenticate(backends[n], conn))
        /\ authed.result = AuthNone <=>
               \A i \in DOMAIN backends : BackendAuthenticate(backends[i], conn) = AuthNone
        /\ authed.result = AuthNone => n = Len(backends)

C16_Witness ==
    /\ aphase # "start"
    /\ backends = <<"bearer", "param", "bearer">>
    /\ authed.invoked = <<1, 2>>
    /\ authed.result = GetParamAuthenticate(conn)
    /\ authed.result # AuthNone

\* a place of the request holds no token, or one whose expires_at, as the
\* verifier reports it, lies in the past
AbsentOrExpired(token) ==
    \/ token.k = "none"
    \/ /\ generic_verify_token(token).k = "info"
       /\ generic_verify_token(token).expires_at.k = "int"
       /\ generic_verify_token(token).expires_at.v < now

BearerToken(c) ==
    IF c.authorization.k = "none" THEN AuthNone
    ELSE IF c.authorization.scheme # "bearer" THEN AuthNone
    ELSE c.authorization.token

\* C17: with a verifier that reports the expiry of a token, a token whose
\* expires_at lies in the past is no match for any backend and the request
\* goes on as if the token were absent: when every token it carries is
\* expired no backend matches and the default credential is used.
C17_AsStated ==
    (/\ aphase # "start"
     /\ token_verifier = "generic"
     /\ AbsentOrExpired(conn.param)
     /\ AbsentOrExpired(BearerToken(conn))) =>
        /\ authed.result = AuthNone
        /\ authed.invoked = [i \in 1..Len(backends) |-> i]
        /\ aphase = "resolved" =>
               resolved = create_hydrolix_client([ok |-> TRUE, cred |-> NoCredential])

(***************************************************************************)
(* Properties of the summary-table functions (SpecColumns)                 *)
(***************************************************************************)
\* the declared type reads (Simple)?AggregateFunction(...
DeclaredAggregate(column_type) ==
    \/ StartsAt(column_type, 1, <<65, 103, 103, 114, 101, 103, 97, 116, 101, 70, 117, 110, 99, 116, 105, 111, 110, 40>>)
    \/ StartsAt(column_type, 1, <<83, 105, 109, 112, 108, 101, 65, 103, 103, 114, 101, 103, 97, 116, 101, 70, 117, 110, 99, 116, 105, 111, 110, 40>>)

\* the category the precedence gives a column
CategoryByPrecedence(column) ==
    IF DeclaredAggregate(column.column_type) THEN PyStr(<<97, 103, 103, 114, 101, 103, 97, 116, 101>>)
    ELSE IF /\ column.default_kind = PyStr(<<65, 76, 73, 65, 83>>)
            /\ column.default_expression.k = "str"
            /\ Contains(column.default_expression.v, <<77, 101, 114, 103, 101, 40>>)
         THEN PyStr(<<97, 108, 105, 97, 115, 95, 97, 103, 103, 114, 101, 103, 97, 116, 101>>)
    ELSE PyStr(<<100, 105, 109, 101, 110, 115, 105, 111, 110>>)

\* C18: an enriched column has the category the precedence aggregate, then
\* alias_aggregate, then dimension gives it, and its base_function and its
\* merge_function are non-null exactly when that category is aggregate,
\* whatever the two fields held before.
C18_AsStated ==
    (mphase = "enriched" /\ mout.kind = "column") =>
        /\ mout.column.column_category = CategoryByPrecedence(min.column)
        /\ (mout.column.base_function # PyNone)
               <=> (mout.column.column_category = PyStr(<<97, 103, 103, 114, 101, 103, 97, 116, 101>>))
        /\ (mout.column.merge_function # PyNone)
               <=> (mout.column.column_category = PyStr(<<97, 103, 103, 114, 101, 103, 97, 116, 101>>))

\* the function name, Merge, and the parameter list from its ( on
MergeInserted(base_function, open) ==
    IF open = 0 THEN base_function \o <<77, 101, 114, 103, 101>>
    ELSE SubSeq(base_function, 1, open - 1) \o <<77, 101, 114, 103, 101>>
         \o SubSeq(base_function, open, Len(base_function))

\* C19: the merge function of an aggregate column is the name of its base
\* function, then Merge, then the parameter list of the base function as it
\* stands, if it has one, an empty one included; Merge never follows a
\* parameter list.
C19_AsStated ==
    (mphase = "enriched" /\ mout.kind = "column"
     /\ mout.column.column_category = PyStr(<<97, 103, 103, 114, 101, 103, 97, 116, 101>>)) =>
        /\ mout.column.merge_function.v
               = MergeInserted(mout.column.base_function.v,
                               IndexFrom(mout.column.base_function.v, 1, 40))
        /\ ~Contains(mout.column.merge_function.v, <<41, 77, 101, 114, 103, 101>>)

\* the columns of a list whose category is aggregate or alias_aggregate
AggregatesOf(columns) ==
    SelectSeq(columns, LAMBDA c : c.column_category = PyStr(<<97, 103, 103, 114, 101, 103, 97, 116, 101>>)
                                  \/ c.column_category = PyStr(<<97, 108, 105, 97, 115, 95, 97, 103, 103, 114, 101, 103, 97, 116, 101>>))

\* the columns of a list of any other category
DimensionsOf(columns) ==
    SelectSeq(columns, LAMBDA c : c.column_category # PyStr(<<97, 103, 103, 114, 101, 103, 97, 116, 101>>)
                                  /\ c.column_category # PyStr(<<97, 108, 105, 97, 115, 95, 97, 103, 103, 114, 101, 103, 97, 116, 101>>))

\* C20: a classification holds the aggregate and alias_aggregate columns of
\* its input in aggregate_columns and all others in dimension_columns, each
\* in the order of the input; every input column is in exactly one of the
\* two, their lengths add up to the length of the input, and
\* is_summary_table says that aggregate_columns is not empty.
C20_Partition ==
    mphase = "classified" =>
        LET columns == mout.columns
            result == mout.classification
        IN  /\ result.aggregate_columns = AggregatesOf(columns)
            /\ result.dimension_columns = DimensionsOf(columns)
            /\ \A i \in 1..Len(columns) :
                   (\E j \in 1..Len(result.aggregate_columns) :
                        result.aggregate_columns[j] = columns[i])
                   <=> ~(\E j \in 1..Len(result.dimension_columns) :
                        result.dimension_columns[j] = columns[i])
            /\ Len(result.aggregate_columns) + Len(result.dimension_columns)
                   = Len(columns)
            /\ result.is_summary_table <=> (Len(result.aggregate_columns) > 0)

\* a table with an aggregate, an alias aggregate and a dimension is classified
C20_Witness ==
    /\ mphase = "classified"
    /\ Len(mout.columns) = 3
    /\ \E i \in 1..3 : mout.columns[i].column_category = PyStr(<<97, 103, 103, 114, 101, 103, 97, 116, 101>>)
    /\ \E i \in 1..3 : mout.columns[i].column_category = PyStr(<<97, 108, 105, 97, 115, 95, 97, 103, 103, 114, 101, 103, 97, 116, 101>>)
    /\ \E i \in 1..3 : mout.columns[i].column_category = PyStr(<<100, 105, 109, 101, 110, 115, 105, 111, 110>>)
    /\ Len(mout.classification.aggregate_columns) = 2
    /\ Len(mout.classification.dimension_columns) = 1

(***************************************************************************)
(* Properties of the operations that take identifiers (SpecIdentifiers)    *)
(***************************************************************************)
\* the metadata and sample operations
IdentifierTools ==
    {"get_table_info", "list_tables", "agent_describe_table", "agent_get_sample_data",
     "clickhouse_describe_table", "clickhouse_get_sample_data"}

\* the name holds a character that is no letter, digit or underscore
BadIdentifier(name) ==
    \E i \in 1..Len(name) :
        ~(name[i] = 95 \/ (name[i] >= 48 /\ name[i] <= 57)
          \/ (name[i] >= 65 /\ name[i] <= 90) \/ (name[i] >= 97 /\ name[i] <= 122))

\* the call named a database or a table with such a character
NamedBadly ==
    /\ last.tool \in IdentifierTools
    /\ BadIdentifier(last.database) \/ BadIdentifier(last.query)

\* the call ended with the invalid-identifier error
InvalidIdentifierError ==
    \/ last.res.outcome = "ok" /\ "error" \in DOMAIN last.res.resp
       /\ last.res.resp.error \in {<<"Invalid", "database", "name">>,
                                   <<"Invalid", "table", "name">>}
    \/ last.res.outcome # "ok" /\ Len(last.res.error) > 0
       /\ last.res.error[1] = "Invalid"

\* C21: a metadata or sample operation called with a database or table name
\* that holds a character other than a letter, a digit or an underscore
\* fails with the invalid-identifier error and sends no statement.
C21_AsStated ==
    NamedBadly => (InvalidIdentifierError /\ last.res.sent = <<>>)

\* the catalog lookup of the last get_table_info call came back without a row
LookupEmpty ==
    /\ last.tool = "get_table_info"
    /\ engine # "down"
    /\ \A i \in 1..Len(Catalog(last.database)) : Catalog(last.database)[i] # last.query

\* C22: when the catalog lookup of get_table_info returns no row, the call
\* fails with the not-found error, the lookup is the one statement it sent
\* (no DESCRIBE TABLE), and no Table is returned.
C22_NotFound ==
    LookupEmpty =>
        /\ last.res.outcome = "ToolError"
        /\ last.res.error = <<"Table not found">>
        /\ Len(last.res.sent) = 1
        /\ last.res.sent[1].stmt.kind = "table"
        /\ "table" \notin DOMAIN last.res.resp

\* a well-formed name of a table that is in no catalog was looked up
C22_Witness ==
    /\ LookupEmpty
    /\ last.database = DbA
    /\ last.query = <<110, 111>>
    /\ ntables > 0
    /\ last.res.outcome = "ToolError"

(***************************************************************************)
(* Properties of the two paginating tools (SpecPaging)                     *)
(***************************************************************************)
\* the last call was one of the two tools with pagination off, by its
\* argument or by the switch
Unpaged ==
    /\ last.tool \in {"list_tables", "run_select_query"}
    /\ ~last.paginate \/ ~enable_pagination

\* what the last call returns when it is made without its cursor
WithoutCursor ==
    IF last.tool = "list_tables"
    THEN list_tables(last.database, last.like, last.not_like, PyNone, last.paginate)
    ELSE run_select_query(last.query, PyNone, last.paginate)

\* the statements of an unpaged call carry no LIMIT and no OFFSET, and what
\* it returns is the whole result in the legacy shape
UnpagedShape ==
    /\ \A i \in 1..Len(last.res.sent) :
           last.res.sent[i].stmt.kind \in {"tables", "query"} =>
               /\ last.res.sent[i].stmt.limit = PyNone
               /\ last.res.sent[i].stmt.offset = PyNone
    /\ \A i \in 1..Len(last.res.sent) :
           last.res.sent[i].stmt.kind = "query" =>
               /\ last.res.sent[i].stmt.text = last.query
               /\ ~last.res.sent[i].stmt.wrapped
    /\ (last.res.outcome = "ok" /\ last.tool = "list_tables") =>
           /\ DOMAIN last.res.resp = {"legacy", "tables"}
           /\ last.res.resp.legacy
           /\ last.res.resp.tables
                  = MatchingTables(last.database, Clause(last.like), Clause(last.not_like))
    /\ (last.res.outcome = "ok" /\ last.tool = "run_select_query") =>
           /\ DOMAIN last.res.resp = {"legacy", "rows"}
           /\ last.res.resp.legacy
           /\ last.res.resp.rows = SelectRows(last.query).rows

\* C23 as stated: with pagination off the two tools send no LIMIT or OFFSET
\* and return the whole result in the legacy shape, and the call comes out
\* as it does without its cursor.
C23_AsStated ==
    Unpaged => (UnpagedShape /\ last.res = WithoutCursor)

\* C23: with pagination off the two tools send no LIMIT or OFFSET and return
\* the whole result in the legacy shape; the cursor of such a call is still
\* checked, and the call either fails on it with the invalid-cursor error or
\* comes out as it does without the cursor.
C23_UnpagedLegacy ==
    Unpaged => (UnpagedShape /\ (CursorRejected \/ last.res = WithoutCursor))

\* a cursor minted at an offset is passed to an unpaged call, which returns
\* the rows from the first on
C23_Witness ==
    /\ Unpaged
    /\ last.origin = "minted"
    /\ last.res.outcome = "ok"
    /\ Len(PageOf(last.res)) >= 2

(***************************************************************************)
(* Properties of hash_query (SpecHash)                                     *)
(***************************************************************************)
\* a digit or one of a..f
LowerHex(ch) == (ch >= 48 /\ ch <= 57) \/ (ch >= 97 /\ ch <= 102)

\* C24: two query texts have the same hash exactly when they are the same
\* text once leading and trailing whitespace is removed, and a hash is 64
\* lowercase hexadecimal characters.
C24_HashOfStripped ==
    cphase = "hashed" =>
        /\ (cout.h1 = cout.h2) <=> (Strip(cin.q1) = Strip(cin.q2))
        /\ Len(cout.h1) = 64
        /\ \A i \in 1..Len(cout.h1) : LowerHex(cout.h1[i])

\* two different texts hash alike: they differ in the whitespace around them
C24_Witness ==
    /\ cphase = "hashed"
    /\ cin.q1 # cin.q2
    /\ cout.h1 = cout.h2

\* two texts that differ only in the whitespace inside them hash differently
C24_WitnessInside ==
    /\ cphase = "hashed"
    /\ Squeeze(cin.q1) = Squeeze(cin.q2)
    /\ Strip(cin.q1) # Strip(cin.q2)
    /\ cout.h1 # cout.h2

\* the last call returned a paginated response
Paginated ==
    /\ last.tool \in {"list_tables", "run_select_query"}
    /\ last.res.outcome = "ok"
    /\ ~last.res.resp.legacy

\* the page size of the tool of the last call
PageSizeOfLast ==
    IF last.tool = "list_tables" THEN list_tables_page_size ELSE query_result_page_size

\* the over-fetch of a paginated response: its first statement asks for
\* page_size + 1 rows at the offset of the request; nextCursor is set
\* exactly when the engine has more than page_size rows for it, and then the
\* page is the first page_size of them, the cursor carries the offset plus
\* page_size and, in list_tables, only the tables of the page are described
OverFetch(first, rows, page_size) ==
    /\ first.limit = PyInt(page_size + 1)
    /\ first.offset.k = "int"
    /\ first.offset.v >= 0
    /\ (last.res.resp.nextCursor # PyNone) <=> (Len(rows) > page_size)
    /\ Len(rows) > page_size =>
           /\ PageOf(last.res) = SubSeq(rows, 1, page_size)
           /\ DictGet(decode_cursor(last.res.resp.nextCursor.v).v, s_offset, PyNone)
                  = PyInt(first.offset.v + page_size)
    /\ Len(rows) <= page_size => PageOf(last.res) = rows
    /\ last.tool = "list_tables" =>
           /\ Len(last.res.sent) = 1 + Len(PageOf(last.res))
           /\ \A i \in 1..Len(PageOf(last.res)) :
                  /\ last.res.sent[i + 1].stmt.kind = "describe"
                  /\ last.res.sent[i + 1].stmt.table = PageOf(last.res)[i]
    /\ last.tool = "run_select_query" => Len(last.res.sent) = 1

\* C25 as stated: every paginated response of the two tools follows the
\* over-fetch, and its hasMore is true exactly when its nextCursor is set.
C25_AsStated ==
    Paginated =>
        /\ OverFetch(last.res.sent[1].stmt, EngineRun(last.res.sent[1].stmt).rows,
                     PageSizeOfLast)
        /\ "hasMore" \in DOMAIN last.res.resp
        /\ last.res.resp.hasMore <=> (last.res.resp.nextCursor # PyNone)

\* C25: every paginated response of the two tools follows the over-fetch; a
\* response of run_select_query has a hasMore that is true exactly when its
\* nextCursor is set, a response of list_tables has no hasMore.
C25_OverFetch ==
    Paginated =>
        /\ OverFetch(last.res.sent[1].stmt, EngineRun(last.res.sent[1].stmt).rows,
                     PageSizeOfLast)
        /\ last.tool = "run_select_query" =>
               /\ "hasMore" \in DOMAIN last.res.resp
               /\ last.res.resp.hasMore <=> (last.res.resp.nextCursor # PyNone)
        /\ last.tool = "list_tables" => "hasMore" \notin DOMAIN last.res.resp

\* a page after the first was cut from an over-fetch and another cursor minted
C25_Witness ==
    /\ Paginated
    /\ last.origin = "minted"
    /\ last.res.resp.nextCursor # PyNone
    /\ last.res.sent[1].stmt.offset.v >= 1
    /\ Len(PageOf(last.res)) = PageSizeOfLast

\* a full last page: the engine has exactly page_size rows left, no cursor
C25_WitnessFull ==
    /\ Paginated
    /\ last.res.resp.nextCursor = PyNone
    /\ Len(PageOf(last.res)) = PageSizeOfLast

\* the last call was given the cursor the other tool had just minted
CrossTool(minter, tool) ==
    /\ last.tool = tool
    /\ last.origin = "minted"
    /\ last.minter.tool = minter

\* C30: a cursor minted by list_tables is rejected by run_select_query
\* whatever the query, and a cursor minted by run_select_query is rejected by
\* list_tables whatever the filters: the call fails on the cursor before any
\* statement is sent.
C30_NoCrossToolCursor ==
    /\ CrossTool("list_tables", "run_select_query") => CursorRejected
    /\ CrossTool("run_select_query", "list_tables") => CursorRejected

\* run_select_query was given a cursor of list_tables and rejected it
C30_Witness ==
    /\ CrossTool("list_tables", "run_select_query")
    /\ CursorRejected
    /\ DictGet(decode_cursor(last.cursor.v).v, s_type, PyNone) = PyStr(s_table_list)

\* list_tables was given a cursor of run_select_query and rejected it
C30_WitnessListTables ==
    /\ CrossTool("run_select_query", "list_tables")
    /\ CursorRejected
    /\ DictGet(decode_cursor(last.cursor.v).v, s_type, PyNone) = PyStr(s_query_result)

(***************************************************************************)
(* Properties of cursors with a made-up offset (SpecForged)                *)
(***************************************************************************)
\* the decoded cursor of the last call has no offset, or one that is no
\* integer, or a negative one
OffsetUnusable(cursor_data) ==
    \/ s_offset \notin DOMAIN cursor_data.v
    \/ cursor_data.v[s_offset].k # "int"
    \/ cursor_data.v[s_offset].v < 0

\* C29: list_tables and run_select_query reject, as an invalid cursor, a
\* cursor whose offset is missing, negative or no integer, and every OFFSET
\* they write into a statement is an integer that is not negative.
C29_AsStated ==
    (last.tool \in {"list_tables", "run_select_query"} /\ last.origin = "crafted") =>
        /\ OffsetUnusable(decode_cursor(last.cursor.v).v) => CursorRejected
        /\ \A i \in 1..Len(last.res.sent) :
               (last.res.sent[i].stmt.kind \in {"tables", "query"}
                /\ last.res.sent[i].stmt.offset # PyNone) =>
                   /\ last.res.sent[i].stmt.offset.k = "int"
                   /\ last.res.sent[i].stmt.offset.v >= 0

(***************************************************************************)
(* Properties of concurrent requests (SpecConcurrent)                      *)
(***************************************************************************)
\* C26: every statement sent carries the credential resolved for the request
\* that issued it, through a client that request created, open at that
\* moment and never after its request completed; an execution has a client
\* of its own, so no client serves two requests, two credentials or two
\* executions; and a completed request leaves no open client behind.
C26_ClientPerExecution ==
    /\ \A w \in wire :
          /\ creds_with(reqs[w.req].cred).ok
          /\ w.cred = creds_with(reqs[w.req].cred).cred
          /\ Handle(w.client).owner = w.req
          /\ Handle(w.client).cred = w.cred
          /\ w.open
          /\ ~w.after
    /\ \A w1, w2 \in wire :
          w1.client = w2.client => (w1.req = w2.req /\ w1.exec = w2.exec /\ w1.cred = w2.cred)
    /\ \A c \in handles : reqs[c.owner].pc = "done" => ~c.open

\* two requests with different credentials have their statements at the
\* engine at the same time, one of them in its second execution
C26_Witness ==
    /\ reqs[1].pc = "inflight"
    /\ reqs[2].pc = "inflight"
    /\ reqs[1].cred # NoCredential
    /\ reqs[2].cred # NoCredential
    /\ reqs[1].cred # reqs[2].cred
    /\ reqs[1].execs = 1
    /\ Cardinality(wire) = 3

\* C28: the statements in flight never outnumber the capacity of the pool.
C28_AsStated == DOMAIN reqs # {} => InFlight <= client_shared_pool.maxsize

(***************************************************************************)
(* Properties of paginations followed at the same time (SpecWalks)         *)
(***************************************************************************)
\* the pages a walk receives when no other call is served, fuel of them at
\* most: its tool called from no cursor on, with the cursor of each page, in
\* the current state of the configuration and the engine
RECURSIVE AlonePages(_, _, _)
AloneFrom(walk, res, fuel) ==
    <<PageOf(res)>> \o (IF NextCursorOf(res) # PyNone
                        THEN AlonePages(walk, NextCursorOf(res), fuel - 1)
                        ELSE <<>>)

AlonePages(walk, cursor, fuel) ==
    IF fuel = 0 THEN <<>> ELSE AloneFrom(walk, WalkCall(walk, cursor), fuel)

\* what the arguments of a walk select from the engine's data
WalkFull(walk) ==
    IF walk.tool = "list_tables" THEN MatchingTables(DbA, Clause(walk.like), PyNone)
    ELSE SelectRows(RStripSemicolons(Strip(walk.query))).rows

\* a walk has received the first pages of alone, all of them when it has
\* ended, and what its arguments select when it ended without an error
WalkAgrees(walk, n, alone) ==
    /\ n <= Len(alone)
    /\ walk.pages = SubSeq(alone, 1, n)
    /\ (n > 0 /\ ~walk.open) => n = Len(alone)
    /\ (n > 0 /\ ~walk.open /\ ~walk.failed) => Flatten(walk.pages) = WalkFull(walk)

C27_WitnessSameArguments ==
    /\ DOMAIN walks = Walkers
    /\ walks[1].tool = "list_tables"
    /\ walks[2].tool = "list_tables"
    /\ walks[1].like = walks[2].like
    /\ walks[1].at = <<1, 4>>
    /\ walks[2].at = <<2, 3>>
    /\ ~walks[1].open /\ ~walks[2].open
    /\ walks[1].pages = walks[2].pages
    /\ walks[1].pages[2] # <<>>

====
